---------------------------- MODULE Spec2Model ----------------------------
(***************************************************************************)
(* Model of batch_raman_backup_v7.0.py: zircon Raman peak tables, the      *)
(* spectral-region classifier, the outlier cleaning pass, the region       *)
(* statistics of the batch run, the 3 x 4 baseline/normalisation sweep,    *)
(* and process_file and fit_gaussian_profiles applied to drawn inputs.     *)
(*                                                                         *)
(* Units.  Centro (peak centre) and FWHM_Gauss are whole cm^-1; R2 is in  *)
(* hundredths (R2 = 30 stands for 0.30).  Quartiles are carried times 4    *)
(* and the Tukey fences times 8, so that every comparison of the source    *)
(* is an exact integer comparison.                                         *)
(***************************************************************************)
EXTENDS Integers, Sequences, FiniteSets, TLC

VARIABLES
    results_df,     \* the peak table handed to the cleaning / statistics code
    verbose,        \* the verbose argument of detect_and_remove_outliers
    pc,             \* position of the table program
    pass1,          \* result of detect_and_remove_outliers(results_df)
    pass2,          \* result of detect_and_remove_outliers(pass1.cleaned_df)
    center_value,   \* the centre last handed to the region classifier
    accepted,       \* names of the regions that accepted center_value
    robustness,     \* regional_analysis of analyze_peak_detection_robustness
    console,        \* region summary printed by batch_process
    config,         \* the caller's configuration dict handed to the sweep
    csv_files,      \* the CSV files of config["input_dir"]
    spc,            \* position of the sweep: "idle", "loop", "returned"
    combination_count,    \* combinations started so far
    combination_summary,  \* one entry per combination that produced metrics
    log,            \* RESULT lines of the scientific log, one per failed combination
    file_handler,   \* "none", "open" or "closed"
    ret,            \* value returned by the sweep, or the exception it raised
    combo,          \* locals of the last loop iteration
    regional_files, \* the Regional_Analysis CSV files written, one per combination
    all_regional_df,\* the cross-combination regional comparative table
    fcall,          \* a pending call of process_file or fit_gaussian_profiles
    outcome,        \* what that call returned
    fpc             \* position of the calling program: "off", "call", "done"

tvars == <<results_df, verbose, pc, pass1, pass2, center_value, accepted,
           robustness, console>>
svars == <<config, csv_files, spc, combination_count, combination_summary,
           log, file_handler, ret, combo, regional_files, all_regional_df>>
fvars == <<fcall, outcome, fpc>>
vars == <<tvars, svars, fvars>>

-----------------------------------------------------------------------------
(* Bounds of the model *)

MaxRows == 5        \* rows of a freely composed table
MaxBulk == 7        \* multiplicity of each row kind in a one-region table
MinCentre == 190    \* the classifier is exercised on MinCentre..MaxCentre
MaxCentre == 1025
MinSamples == 3     \* samples of an input spectrum: MinSamples..MaxSamples
MaxSamples == 4

-----------------------------------------------------------------------------
(* Small helpers *)

Range(s) == {s[i] : i \in DOMAIN s}

RECURSIVE SumSeq(_)
SumSeq(s) == IF s = <<>> THEN 0 ELSE Head(s) + SumSeq(Tail(s))

MinOf(S) == CHOOSE v \in S : \A w \in S : v <= w
MaxOf(S) == CHOOSE v \in S : \A w \in S : w <= v

\* k-th smallest element (1-based) of a non-empty sequence of integers
KthSmallest(a, k) ==
    CHOOSE v \in Range(a) :
        /\ Cardinality({i \in DOMAIN a : a[i] < v}) < k
        /\ k <= Cardinality({i \in DOMAIN a : a[i] <= v})

Rep(row, k) == [i \in 1..k |-> row]

\* a DataFrame is a sequence of rows; idx is the row label
Labels(df) == {df[i].idx : i \in DOMAIN df}
Column(df, col) == [i \in DOMAIN df |-> df[i][col]]
Drop(df, labels) == SelectSeq(df, LAMBDA r : r.idx \notin labels)
WithRangeIndex(rows) ==
    [i \in DOMAIN rows |->
        [idx |-> i - 1, Centro |-> rows[i].Centro,
         FWHM_Gauss |-> rows[i].FWHM_Gauss, R2 |-> rows[i].R2]]

-----------------------------------------------------------------------------
(* Region classifier.  Region names are written in ASCII: nu3(SiO4) is the *)
(* source's key for the antisymmetric stretching mode, and so on.          *)

get_zircon_spectral_regions ==
    << [name |-> "nu3(SiO4)",       min_wave |-> 990, max_wave |-> 1020, is_inclusive |-> TRUE],
       [name |-> "nu1(SiO4)",       min_wave |-> 965, max_wave |-> 985,  is_inclusive |-> TRUE],
       [name |-> "nu2(SiO4)",       min_wave |-> 430, max_wave |-> 450,  is_inclusive |-> TRUE],
       [name |-> "External mode 1", min_wave |-> 195, max_wave |-> 210,  is_inclusive |-> FALSE],
       [name |-> "External mode 2", min_wave |-> 210, max_wave |-> 220,  is_inclusive |-> FALSE],
       [name |-> "External mode 3", min_wave |-> 220, max_wave |-> 230,  is_inclusive |-> FALSE],
       [name |-> "External mode 4", min_wave |-> 350, max_wave |-> 365,  is_inclusive |-> TRUE] >>

is_peak_in_region_closed(center, min_wave, max_wave, is_inclusive) ==
    min_wave <= center /\ center <= max_wave

is_peak_in_region_open(center, min_wave, max_wave, is_inclusive) ==
    min_wave <= center /\ center < max_wave

is_peak_in_region(center, min_wave, max_wave, is_inclusive) ==
    IF is_inclusive
    THEN min_wave <= center /\ center <= max_wave
    ELSE min_wave <= center /\ center < max_wave

RegionNames == {get_zircon_spectral_regions[i].name : i \in DOMAIN get_zircon_spectral_regions}

AcceptingRegions(center) ==
    {reg.name : reg \in {r \in Range(get_zircon_spectral_regions) :
        is_peak_in_region(center, r.min_wave, r.max_wave, r.is_inclusive)}}

-----------------------------------------------------------------------------
(* detect_and_remove_outliers *)

R2_POOR_FIT == 30              \* R2 < 0.3
FWHM_EXTREME == 60             \* FWHM > 60 cm^-1
R2_UNCLASSIFIED == 50          \* R2 < 0.5
FWHM_UNCLASSIFIED == 50        \* FWHM > 50 cm^-1
IQR_MIN_POINTS == 4
Z_MIN_POINTS == 3
Z_LIMIT == 3

\* region_mask of one region: the rows of df whose Centro lies in it
InRegionMask(row, reg) ==
    IF reg.is_inclusive
    THEN row.Centro >= reg.min_wave /\ row.Centro <= reg.max_wave
    ELSE row.Centro >= reg.min_wave /\ row.Centro < reg.max_wave

RegionData(df, reg) == SelectSeq(df, LAMBDA r : InRegionMask(r, reg))

\* Series.quantile(q) with q = quarter/4 (linear interpolation), times 4
Quantile4(values, quarter) ==
    LET n   == Len(values)
        h4  == (n - 1) * quarter
        lo  == h4 \div 4
        fr4 == h4 % 4
        a   == KthSmallest(values, lo + 1)
    IN  IF fr4 = 0 THEN 4 * a
        ELSE 4 * a + fr4 * (KthSmallest(values, lo + 2) - a)

\* Criterion 1: poor_fit_mask
PoorFitIndices(region_data) ==
    {r.idx : r \in {q \in Range(region_data) : q.R2 < R2_POOR_FIT}}

\* Criterion 2: iqr_outliers_mask (lower_bound and upper_bound times 8)
IqrOutliersIndices(region_data) ==
    LET fwhm_values == Column(region_data, "FWHM_Gauss")
    IN  IF Len(fwhm_values) >= IQR_MIN_POINTS
        THEN LET Q1x4 == Quantile4(fwhm_values, 1)
                 Q3x4 == Quantile4(fwhm_values, 3)
                 IQRx4 == Q3x4 - Q1x4
                 lower_bound8 == 2 * Q1x4 - 3 * IQRx4
                 upper_bound8 == 2 * Q3x4 + 3 * IQRx4
             IN  {r.idx : r \in {q \in Range(region_data) :
                     8 * q.FWHM_Gauss < lower_bound8 \/ 8 * q.FWHM_Gauss > upper_bound8}}
        ELSE {}

\* Criterion 3: z_outliers_mask.  With S the sum, SS the sum of squares and
\* n the count, std (ddof = 1) > 0 iff n*SS - S*S > 0, and
\* |x - mean| / std > 3  iff  (n*x - S)^2 * (n - 1) > 9 * n * (n*SS - S*S).
ZOutliersIndices(region_data) ==
    LET fwhm_values == Column(region_data, "FWHM_Gauss")
        n  == Len(fwhm_values)
        S  == SumSeq(fwhm_values)
        SS == SumSeq([i \in DOMAIN fwhm_values |-> fwhm_values[i] * fwhm_values[i]])
        V  == n * SS - S * S
    IN  IF n >= Z_MIN_POINTS /\ V > 0
        THEN {r.idx : r \in {q \in Range(region_data) :
                 (n * q.FWHM_Gauss - S) * (n * q.FWHM_Gauss - S) * (n - 1)
                     > Z_LIMIT * Z_LIMIT * n * V}}
        ELSE {}

\* Criterion 4: extreme_fwhm_mask
ExtremeFwhmIndices(region_data) ==
    {r.idx : r \in {q \in Range(region_data) : q.FWHM_Gauss > FWHM_EXTREME}}

\* outliers_indices of one region after the four update() calls
RegionOutliersIndices(region_data) ==
    PoorFitIndices(region_data) \cup IqrOutliersIndices(region_data)
        \cup ZOutliersIndices(region_data) \cup ExtremeFwhmIndices(region_data)

\* stats_before / stats_after.  tag is "unbound" while the local name has
\* never been assigned, "None" for None, "dict" for a statistics dict; the
\* mean is fwhm_sum / count (r2_sum / count), the std derives from fwhm_ssq.
NoStats(tag) ==
    [tag |-> tag, count |-> 0, fwhm_sum |-> 0, fwhm_ssq |-> 0, r2_sum |-> 0,
     fwhm_min |-> 0, fwhm_max |-> 0]

DescribeStats(data, cnt) ==
    LET f == Column(data, "FWHM_Gauss")
    IN  [tag |-> "dict", count |-> cnt,
         fwhm_sum |-> SumSeq(f),
         fwhm_ssq |-> SumSeq([i \in DOMAIN f |-> f[i] * f[i]]),
         r2_sum |-> SumSeq(Column(data, "R2")),
         fwhm_min |-> MinOf(Range(f)), fwhm_max |-> MaxOf(Range(f))]

ZeroStats ==
    [tag |-> "dict", count |-> 0, fwhm_sum |-> 0, fwhm_ssq |-> 0, r2_sum |-> 0,
     fwhm_min |-> 0, fwhm_max |-> 0]

\* One iteration of the loop over spectral_regions.  st carries the locals
\* cleaned_df, outlier_report, total_outliers_removed, stats_before,
\* stats_after, and raised (the exception that ended the call, "" if none).
RegionStep(df, reg, st) ==
    LET region_data == RegionData(df, reg)
        initial_count == Len(region_data)
        outliers_indices == RegionOutliersIndices(region_data)
        region_outliers_count == Cardinality(outliers_indices)
        remaining_data == Drop(region_data, outliers_indices)
        stats_before ==
            IF region_outliers_count > 0
            THEN IF Len(remaining_data) > 0
                 THEN DescribeStats(region_data, initial_count)
                 ELSE st.stats_before
            ELSE NoStats("None")
        stats_after ==
            IF region_outliers_count > 0
            THEN IF Len(remaining_data) > 0
                 THEN DescribeStats(remaining_data, Len(remaining_data))
                 ELSE ZeroStats
            ELSE NoStats("None")
        entry ==
            [initial_count |-> initial_count,
             outliers_removed |-> region_outliers_count,
             remaining_count |-> initial_count - region_outliers_count,
             outlier_indices |-> outliers_indices,
             stats_before |-> stats_before,
             stats_after |-> stats_after]
    IN  IF st.raised # "" \/ initial_count = 0 THEN st
        ELSE IF stats_before.tag = "unbound"
        THEN [st EXCEPT !.raised = "UnboundLocalError"]
        ELSE [st EXCEPT
                 !.cleaned_df = Drop(@, outliers_indices),
                 !.outlier_report =
                     [n \in DOMAIN @ \cup {reg.name} |->
                         IF n = reg.name THEN entry ELSE @[n]],
                 !.total_outliers_removed = @ + region_outliers_count,
                 !.stats_before = stats_before,
                 !.stats_after = stats_after]

RECURSIVE RegionLoop(_, _, _)
RegionLoop(df, i, st) ==
    IF i > Len(get_zircon_spectral_regions) THEN st
    ELSE RegionLoop(df, i + 1, RegionStep(df, get_zircon_spectral_regions[i], st))

\* rows outside every region (~all_regions_mask)
UnclassifiedData(df) ==
    SelectSeq(df, LAMBDA r :
        ~ \E i \in DOMAIN get_zircon_spectral_regions :
              InRegionMask(r, get_zircon_spectral_regions[i]))

UnclassifiedOutliersIndices_and(unclassified_data) ==
    {r.idx : r \in {q \in Range(unclassified_data) :
        q.R2 < R2_UNCLASSIFIED /\ q.FWHM_Gauss > FWHM_UNCLASSIFIED}}

UnclassifiedOutliersIndices(unclassified_data) ==
    {r.idx : r \in {q \in Range(unclassified_data) :
        q.R2 < R2_UNCLASSIFIED \/ q.FWHM_Gauss > FWHM_UNCLASSIFIED}}

\* The whole call.  The result carries raised ("" when the call returned),
\* and, when it returned, cleaned_df and outlier_report.  df is a table that
\* has its columns; without rows (a cleaned table of which every row was
\* removed) the closing summary divides by len(results_df) = 0.
detect_and_remove_outliers(df, verb) ==
    LET st0 == [cleaned_df |-> df,
                outlier_report |-> [n \in {} |-> 0],
                total_outliers_removed |-> 0,
                stats_before |-> NoStats("unbound"),
                stats_after |-> NoStats("unbound"),
                raised |-> ""]
        st1 == RegionLoop(df, 1, st0)
        unclassified_outliers_indices ==
            UnclassifiedOutliersIndices(UnclassifiedData(df))
        cleaned == Drop(st1.cleaned_df, unclassified_outliers_indices)
        total == st1.total_outliers_removed + Cardinality(unclassified_outliers_indices)
    IN  IF st1.raised # ""
        THEN [raised |-> st1.raised, cleaned_df |-> <<>>,
              outlier_report |-> st1.outlier_report, total_outliers_removed |-> 0]
        ELSE IF verb /\ Len(df) = 0
        THEN [raised |-> "ZeroDivisionError", cleaned_df |-> <<>>,
              outlier_report |-> st1.outlier_report, total_outliers_removed |-> 0]
        ELSE [raised |-> "", cleaned_df |-> cleaned,
              outlier_report |-> st1.outlier_report,
              total_outliers_removed |-> total]

NotRun == [raised |-> "not run", cleaned_df |-> <<>>,
           outlier_report |-> [n \in {} |-> 0], total_outliers_removed |-> 0]

-----------------------------------------------------------------------------
(* Region statistics of analyze_peak_detection_robustness and batch_process *)

expected_regions ==
    << [name |-> "nu3(SiO4)",      min_wave |-> 990, max_wave |-> 1020],
       [name |-> "nu1(SiO4)",      min_wave |-> 965, max_wave |-> 985],
       [name |-> "nu2(SiO4)",      min_wave |-> 430, max_wave |-> 450],
       [name |-> "Modo externo 1", min_wave |-> 195, max_wave |-> 210],
       [name |-> "Modo externo 2", min_wave |-> 210, max_wave |-> 220],
       [name |-> "Modo externo 3", min_wave |-> 220, max_wave |-> 230],
       [name |-> "Modo externo 4", min_wave |-> 350, max_wave |-> 365] >>

\* region_peaks / region_data: Centro >= min_wave and Centro <= max_wave
ClosedRegionPeaks(df, reg) ==
    SelectSeq(df, LAMBDA r : r.Centro >= reg.min_wave /\ r.Centro <= reg.max_wave)

\* report['regional_analysis']: count per region and 'Fora das regioes'
analyze_peak_detection_robustness(df) ==
    LET total_peaks == Len(df)
        counts == [i \in DOMAIN expected_regions |->
                      Len(ClosedRegionPeaks(df, expected_regions[i]))]
        peaks_in_regions == SumSeq(counts)
    IN  [run |-> TRUE, count |-> counts, outside |-> total_peaks - peaks_in_regions]

\* the console table of batch_process: region_count per region, outside_peaks
BatchRegionSummary(all_results) ==
    LET total_peaks == Len(all_results)
        region_count == [i \in DOMAIN expected_regions |->
                            Len(ClosedRegionPeaks(all_results, expected_regions[i]))]
        peaks_in_regions == SumSeq(region_count)
    IN  [run |-> TRUE, count |-> region_count, outside |-> total_peaks - peaks_in_regions]

NoSummary == [run |-> FALSE, count |-> <<>>, outside |-> 0]

-----------------------------------------------------------------------------
(* Baseline correction and process_file *)

\* a numpy array is modelled by its length, a Python tuple by its items
ndarray(n) == [type |-> "ndarray", len |-> n, items |-> <<>>]
PyTuple(items) == [type |-> "tuple", len |-> Len(items), items |-> items]

\* what a baseline function returns, with the function and the parameter that
\* produced it: two results of the same shape differ when they were computed
\* by different functions or with different parameters
Returned(value, fn, parameter) ==
    [type |-> value.type, len |-> value.len, items |-> value.items,
     by |-> fn, parameter |-> parameter]

\* an exception that leaves fn: nothing is returned (parameter is 0 when fn
\* raised before it read one)
Raised(exception, fn, parameter) ==
    [type |-> exception, len |-> 0, items |-> <<>>, by |-> fn, parameter |-> parameter]

IsRaised(value) == value.type \notin {"ndarray", "tuple"}

\* smoothing_factor=0.1, the default of spline_baseline, in hundredths
smoothing_factor_default == 10

\* UnivariateSpline(baseline_x, baseline_y, s=...) fits a spline of degree
\* k = 3 and requires more than k points
spline_degree == 3

\* return z: the estimated baseline alone
airpls_baseline(y, lambda_) ==
    Returned(ndarray(y.len), "airpls_baseline", lambda_)

\* return corrected_spectrum, baseline
polynomial_baseline(y, x, degree) ==
    Returned(PyTuple(<<ndarray(y.len), ndarray(y.len)>>), "polynomial_baseline", degree)

\* return corrected_spectrum, baseline.  The peak windows are
\* int(len(y) * 0.02) samples wide, so no point of a spectrum shorter than 50
\* samples is masked and the spline is fitted to all len(y) points.  With
\* len(y) <= 3 the FITPACK wrapper raises dfitpack.error, which is not a
\* ValueError: the handler around the fit does not catch it.
spline_baseline(y, x, smoothing_factor) ==
    IF y.len <= spline_degree
    THEN Raised("dfitpack.error", "spline_baseline", smoothing_factor)
    ELSE Returned(PyTuple(<<ndarray(y.len), ndarray(y.len)>>), "spline_baseline",
                  smoothing_factor)

\* baseline_config[...] raises KeyError when the section lacks the parameter
\* of the selected method.  The last branch prints a warning and calls
\* spline_baseline(y, x), that is with the default smoothing factor, not the
\* configured spline_smoothing.
correct_baseline(y, x, cfg) ==
    LET baseline_config == cfg.baseline_correction
        method == baseline_config.method
    IN  IF method = "airpls"
        THEN IF "airpls_lambda" \in DOMAIN baseline_config
             THEN airpls_baseline(y, baseline_config.airpls_lambda)
             ELSE Raised("KeyError", "correct_baseline", 0)
        ELSE IF method = "polynomial"
        THEN IF "polynomial_degree" \in DOMAIN baseline_config
             THEN polynomial_baseline(y, x, baseline_config.polynomial_degree)
             ELSE Raised("KeyError", "correct_baseline", 0)
        ELSE IF method = "spline"
        THEN IF "spline_smoothing" \in DOMAIN baseline_config
             THEN spline_baseline(y, x, baseline_config.spline_smoothing)
             ELSE Raised("KeyError", "correct_baseline", 0)
        ELSE spline_baseline(y, x, smoothing_factor_default)

\* y_baseline_corrected, _ = value: the unpacking iterates value and
\* succeeds only when it yields exactly two items; after a raise there is
\* nothing to iterate
UnpackTwo(value) == value.len = 2

PipelineToDetect == <<"baseline", "normalize", "smooth", "detect">>
PipelineToFit == PipelineToDetect \o <<"fit">>
PipelineToClassify == PipelineToFit \o <<"classify">>

\* np.isnan(y).sum() > 0.5 * len(y) or np.count_nonzero(y) < 0.5 * len(y);
\* count_nonzero counts every value other than zero, NaN included
InvalidData(column) ==
    \/ 2 * column.nans > column.samples
    \/ 2 * (column.samples - column.zeros) < column.samples

\* location = column.split('_')[1] if '_' in column
\*            else config["data_format"]["default_location"]:
\* for a column whose name holds no '_' the configuration is read, and the
\* lookup raises KeyError when the section or its key is missing
LocationLookupRaises(column, cfg) ==
    /\ ~column.underscore
    /\ \/ "data_format" \notin DOMAIN cfg
       \/ "default_location" \notin DOMAIN cfg.data_format

\* What is read from the configuration after the baseline correction, in
\* the order it is read: config["normalization"]["method"] before
\* normalize_spectrum, config["smoothing"][...] before apply_savitzky_golay,
\* config["peak_detection"][...] at the start of find_raman_peaks, and
\* config["fitting"][...] before fit_gaussian_profiles
SectionsRead ==
    << [section |-> "normalization", keys |-> {"method"}],
       [section |-> "smoothing", keys |-> {"window_length", "polyorder"}],
       [section |-> "peak_detection",
        keys |-> {"height_percent", "prominence_percent", "distance", "width"}],
       [section |-> "fitting", keys |-> {"method", "max_iterations", "tolerance"}] >>

\* the number of these reads that succeed before one raises KeyError
LookupsBeforeKeyError(cfg) ==
    LET missing == {i \in DOMAIN SectionsRead :
                       \/ SectionsRead[i].section \notin DOMAIN cfg
                       \/ ~(SectionsRead[i].keys \subseteq DOMAIN cfg[SectionsRead[i].section])}
    IN  IF missing = {} THEN Len(SectionsRead) ELSE MinOf(missing) - 1

\* the record with the peaks numbered from 0
result_dict_zero_based(column, i, params) ==
    [Espectro |-> column, Pico |-> i, Centro |-> params.Centro,
     FWHM_Gauss |-> params.FWHM_Gauss, R2 |-> params.R2]

\* for i, params in enumerate(fitted_params): the record of one fitted peak,
\* "Pico": i + 1
result_dict(column, i, params) ==
    [Espectro |-> column, Pico |-> i + 1, Centro |-> params.Centro,
     FWHM_Gauss |-> params.FWHM_Gauss, R2 |-> params.R2]

\* One spectrum from its baseline correction on.  this_call is the
\* correct_baseline call with its value, lookups the number of reads of the
\* configuration that succeed, fit what peak detection and Gaussian fitting
\* yield for the spectrum: the number of peaks find_raman_peaks returns and
\* the list fit_gaussian_profiles returns for them.
SpectrumPipeline(acc, this_call, lookups, fit) ==
    IF ~UnpackTwo(this_call.value)
    \* correct_baseline raised, or the unpacking of its value did
    THEN [acc EXCEPT !.raised = TRUE,
                     !.calls = Append(@, this_call),
                     !.stages = Append(@, "baseline")]
    ELSE IF lookups < 3
    \* KeyError before normalization, smoothing or peak detection
    THEN [acc EXCEPT !.raised = TRUE,
                     !.calls = Append(@, this_call),
                     !.stages = @ \o SubSeq(PipelineToDetect, 1, lookups + 1)]
    ELSE IF fit.len_peaks_indices = 0
    \* no peak found: calculate_fwhm and the fitter are not called
    THEN [acc EXCEPT !.calls = Append(@, this_call),
                     !.stages = @ \o PipelineToDetect]
    ELSE IF lookups < 4
    \* KeyError on config["fitting"] after calculate_fwhm
    THEN [acc EXCEPT !.raised = TRUE,
                     !.calls = Append(@, this_call),
                     !.stages = @ \o PipelineToDetect]
    ELSE IF fit.fitted_params = <<>>
    \* the fitter ran and returned no fitted peak
    THEN [acc EXCEPT !.calls = Append(@, this_call),
                     !.stages = @ \o PipelineToFit]
    ELSE [acc EXCEPT !.calls = Append(@, this_call),
                     !.stages = @ \o PipelineToClassify,
                     !.results = @ \o [k \in DOMAIN fit.fitted_params |->
                                          result_dict(this_call.column, k - 1,
                                                      fit.fitted_params[k])]]

\* y_baseline_corrected, _ = correct_baseline(y, x, config) for column i
BaselineCall(column, i, cfg) ==
    [method |-> cfg.baseline_correction.method, column |-> i,
     samples |-> column.samples,
     value |-> correct_baseline(ndarray(column.samples), ndarray(column.samples), cfg)]

\* The loop of process_file over df.columns[1:].  A column is its number of
\* samples, its NaN and zero counts, whether its cells are numeric and
\* whether its name holds a '_' (grain_location).  acc holds results, the
\* stages run, the correct_baseline calls made, and raised: an exception
\* ends the loop.
RECURSIVE SpectraLoop(_, _, _, _, _)
SpectraLoop(file, fits, cfg, i, acc) ==
    IF i > Len(file) \/ acc.raised THEN acc
    ELSE IF LocationLookupRaises(file[i], cfg)
    \* KeyError before the spectrum is read
    THEN [acc EXCEPT !.raised = TRUE]
    ELSE IF ~file[i].numeric
    \* np.isnan raises TypeError on a column of object dtype
    THEN [acc EXCEPT !.raised = TRUE]
    ELSE IF InvalidData(file[i])
    THEN SpectraLoop(file, fits, cfg, i + 1, acc)
    ELSE SpectraLoop(file, fits, cfg, i + 1,
             SpectrumPipeline(acc, BaselineCall(file[i], i, cfg),
                              LookupsBeforeKeyError(cfg), fits[i]))

\* returned is "None" (fewer than 2 columns, or an exception caught by the
\* function's own handler) or "DataFrame"
process_file(file, fits, cfg) ==
    LET acc == SpectraLoop(file, fits, cfg, 1,
                   [results |-> <<>>, stages |-> <<>>, calls |-> <<>>, raised |-> FALSE])
    IN  IF Len(file) = 0
        THEN [returned |-> "None", results |-> <<>>, stages |-> <<>>, calls |-> <<>>]
        ELSE IF acc.raised
        THEN [returned |-> "None", results |-> <<>>, stages |-> acc.stages, calls |-> acc.calls]
        ELSE [returned |-> "DataFrame", results |-> acc.results,
              stages |-> acc.stages, calls |-> acc.calls]

-----------------------------------------------------------------------------
(* test_all_baseline_normalization_combinations *)

baseline_methods == <<"airpls", "polynomial", "spline">>
\* the normalization methods in another order
normalization_methods_reordered == <<"area", "min_max", "peak", "vector">>
normalization_methods == <<"min_max", "area", "peak", "vector">>
total_combinations == Len(baseline_methods) * Len(normalization_methods)

\* str.capitalize() of the method names
capitalize(name) ==
    CASE name = "airpls" -> "Airpls"
      [] name = "polynomial" -> "Polynomial"
      [] name = "spline" -> "Spline"
      [] name = "min_max" -> "Min_max"
      [] name = "area" -> "Area"
      [] name = "peak" -> "Peak"
      [] name = "vector" -> "Vector"

spectral_regions_for_csv ==
    << [name |-> "nu3(SiO4)", min_wave |-> 990, max_wave |-> 1020],
       [name |-> "nu1(SiO4)", min_wave |-> 965, max_wave |-> 985],
       [name |-> "nu2(SiO4)", min_wave |-> 430, max_wave |-> 450],
       [name |-> "ExtRot 1",  min_wave |-> 195, max_wave |-> 210],
       [name |-> "ExtRot 2",  min_wave |-> 210, max_wave |-> 220],
       [name |-> "ExtRot 3",  min_wave |-> 220, max_wave |-> 230],
       [name |-> "ExtRot 4",  min_wave |-> 350, max_wave |-> 365] >>

\* region_data of the regional analysis of one combination
SweepRegionData(all_results, reg) ==
    SelectSeq(all_results, LAMBDA r : r.Centro >= reg.min_wave /\ r.Centro <= reg.max_wave)

\* regional_summary: one entry per region that has data
RegionalSummary(all_results) ==
    LET entries == [i \in DOMAIN spectral_regions_for_csv |->
                       LET region_data == SweepRegionData(all_results, spectral_regions_for_csv[i])
                       IN  [Regiao |-> spectral_regions_for_csv[i].name,
                            N_Picos |-> Len(region_data),
                            FWHM_sum |-> SumSeq(Column(region_data, "FWHM_Gauss")),
                            R2_sum |-> SumSeq(Column(region_data, "R2")),
                            region_data |-> Labels(region_data)]]
    IN  SelectSeq(entries, LAMBDA e : e.N_Picos > 0)

\* The loop over csv_files of one combination: all_results is the
\* concatenation (ignore_index) of the non-empty tables process_file returned;
\* observed holds, for each process_file call, the methods of the
\* configuration it was handed.
RECURSIVE FilesLoop(_, _, _, _, _)
FilesLoop(files, fits, cfg, i, acc) ==
    IF i > Len(files) THEN acc
    ELSE LET results == process_file(files[i], fits[i], cfg)
             ok == results.returned = "DataFrame" /\ results.results # <<>>
         IN  FilesLoop(files, fits, cfg, i + 1,
                 [all_results |-> IF ok THEN acc.all_results \o results.results
                                  ELSE acc.all_results,
                  processing_success |-> acc.processing_success + (IF ok THEN 1 ELSE 0),
                  processing_errors |-> acc.processing_errors + (IF ok THEN 0 ELSE 1),
                  stages |-> acc.stages \o results.stages,
                  calls |-> acc.calls \o results.calls,
                  observed |-> Append(acc.observed,
                                  [baseline |-> cfg.baseline_correction.method,
                                   normalization |-> cfg.normalization.method])])

\* Regional_Analysis_<combination>.csv: the rows of regional_summary
RegionalAnalysisFile(combination_name, regional_summary) ==
    [Combination |-> combination_name,
     rows |-> [i \in DOMAIN regional_summary |->
                  [Regiao |-> regional_summary[i].Regiao,
                   N_Picos |-> regional_summary[i].N_Picos,
                   FWHM_sum |-> regional_summary[i].FWHM_sum,
                   R2_sum |-> regional_summary[i].R2_sum]]]

\* the rows one combination contributes to the regional comparison: those of
\* its Regional_Analysis file, none when the file does not exist
RegionalRowsOf(entry, files) ==
    LET found == SelectSeq(files, LAMBDA f : f.Combination = entry.Combination)
    IN  IF found = <<>> THEN <<>>
        ELSE [i \in DOMAIN found[1].rows |->
                 [Combination |-> entry.Combination,
                  Baseline |-> entry.Baseline_Method,
                  Normalization |-> entry.Normalization_Method,
                  Regiao |-> found[1].rows[i].Regiao,
                  N_Picos |-> found[1].rows[i].N_Picos,
                  FWHM_sum |-> found[1].rows[i].FWHM_sum,
                  R2_sum |-> found[1].rows[i].R2_sum]]

\* all_regional_df = pd.concat(regional_comparison, ignore_index=True)
RECURSIVE RegionalComparison(_, _)
RegionalComparison(summary, files) ==
    IF summary = <<>> THEN <<>>
    ELSE RegionalRowsOf(Head(summary), files) \o RegionalComparison(Tail(summary), files)

\* FWHM_CV_% and Centro_CV_% of a row: std()/mean()*100 when the mean is
\* positive, else 0; the sample std of a single value is NaN
FwhmCvIsNaN(row) == row.N_Picos = 1 /\ row.FWHM_sum > 0
CentroCvIsNaN(row) == row.N_Picos = 1
ScoreIsNaN(row) == FwhmCvIsNaN(row) \/ CentroCvIsNaN(row)

regions_for_validation == <<"nu3(SiO4)", "nu1(SiO4)", "nu2(SiO4)">>
regions_analysis ==
    <<"nu3(SiO4)", "nu1(SiO4)", "nu2(SiO4)", "ExtRot 1", "ExtRot 2", "ExtRot 3", "ExtRot 4">>

\* idxmin()/idxmax() of an all-NaN column yields no label (NaN, or
\* ValueError in later pandas) and .loc[NaN] raises KeyError
LookupErrors == {"KeyError", "ValueError"}

\* the scientific conclusions: for each region with rows, the row of minimal
\* FWHM_CV (hypothesis validation) and of maximal composite score (analysis
\* by vibrational mode) is looked up
ConclusionsRaise(regional_df) ==
    \/ \E k \in DOMAIN regions_for_validation :
          LET region_data == SelectSeq(regional_df,
                                 LAMBDA r : r.Regiao = regions_for_validation[k])
          IN  /\ Len(region_data) > 0
              /\ \A i \in DOMAIN region_data : FwhmCvIsNaN(region_data[i])
    \/ \E k \in DOMAIN regions_analysis :
          LET region_data == SelectSeq(regional_df,
                                 LAMBDA r : r.Regiao = regions_analysis[k])
          IN  /\ Len(region_data) > 0
              /\ \/ \A i \in DOMAIN region_data : ScoreIsNaN(region_data[i])
                 \/ \A i \in DOMAIN region_data : FwhmCvIsNaN(region_data[i])

\* a combination without results leaves no RESULT line of failure
FailedLine_skipped(combination_name) ==
    [Combination |-> combination_name, result |-> "SKIPPED"]

\* logger.error("RESULT: Combination ... FAILED - No peaks detected")
FailedLine(combination_name) ==
    [Combination |-> combination_name, result |-> "FAILED"]

NoCombination ==
    [Combination |-> "", result |-> "none", all_results |-> <<>>,
     regional_summary |-> <<>>, stages |-> <<>>, calls |-> <<>>, observed |-> <<>>]

\* the default configuration load_config builds, with the baseline method
\* given: the sections process_file reads and output_dir
default_config(baseline_method) ==
    [normalization |-> [method |-> "min_max"],
     baseline_correction |->
         [method |-> baseline_method, airpls_lambda |-> 10000,
          polynomial_degree |-> 4, spline_smoothing |-> 10],
     smoothing |-> [window_length |-> 11, polyorder |-> 3],
     peak_detection |->
         [height_percent |-> 8, prominence_percent |-> 4, distance |-> 2, width |-> 2],
     fitting |-> [method |-> "trf", max_iterations |-> 1000, tolerance |-> "1e-8"],
     data_format |-> [grain_only_columns |-> FALSE, default_location |-> "1"],
     output_dir |-> "results"]

\* the state before the sweep is called, with load_config's default methods
SweepNotCalled ==
    /\ config = default_config("spline")
    /\ spc = "idle"
    /\ combination_count = 0
    /\ combination_summary = <<>>
    /\ log = <<>>
    /\ file_handler = "none"
    /\ ret = [type |-> "pending", value |-> <<>>]
    /\ combo = NoCombination
    /\ regional_files = <<>>
    /\ all_regional_df = <<>>

SweepIdle == SweepNotCalled /\ csv_files = <<>>

\* no call of process_file or fit_gaussian_profiles is pending
NoCall == [op |-> "none"]
FunctionsIdle == fcall = NoCall /\ outcome = NoCall /\ fpc = "off"

-----------------------------------------------------------------------------
(* The table program: a table is composed, classified, cleaned, cleaned    *)
(* again, and analysed.                                                    *)

Row(c, f, r) == [Centro |-> c, FWHM_Gauss |-> f, R2 |-> r]

\* the kinds of fitted peaks a freely composed table is made of
RowKinds ==
    { Row(1000, 10, 90), Row(1000, 11, 90), Row(1000, 14, 90), Row(1000, 70, 10),
      Row(975, 12, 90),  Row(975, 65, 90),
      Row(210, 10, 90),  Row(220, 10, 90),  Row(230, 10, 90),
      Row(500, 10, 40),  Row(500, 55, 90) }

\* tables are composed up to the order of their rows
RowLeq(a, b) ==
    \/ a.Centro < b.Centro
    \/ a.Centro = b.Centro /\ a.FWHM_Gauss < b.FWHM_Gauss
    \/ a.Centro = b.Centro /\ a.FWHM_Gauss = b.FWHM_Gauss /\ a.R2 <= b.R2

\* one-region tables large enough for the z-score criterion
BulkTables ==
    { WithRangeIndex(Rep(Row(1000, 10, 90), k1) \o Rep(Row(1000, 11, 90), k2)
                        \o Rep(Row(1000, 12, 90), k3) \o <<Row(1000, 15, 90)>>) :
        k1 \in 0..MaxBulk, k2 \in 0..MaxBulk, k3 \in 0..MaxBulk }

InitTable ==
    /\ results_df \in {<<>>} \cup BulkTables
    /\ verbose \in BOOLEAN
    /\ pc = "input"
    /\ pass1 = NotRun
    /\ pass2 = NotRun
    /\ center_value = -1
    /\ accepted = {}
    /\ robustness = NoSummary
    /\ console = NoSummary
    /\ SweepIdle
    /\ FunctionsIdle

\* one more fitted peak is appended (pd.concat with ignore_index)
AddRow ==
    /\ pc = "input"
    /\ Len(results_df) < MaxRows
    /\ \E k \in RowKinds :
          /\ IF results_df = <<>> THEN TRUE ELSE RowLeq(results_df[Len(results_df)], k)
          /\ results_df' = Append(results_df,
                [idx |-> Len(results_df), Centro |-> k.Centro,
                 FWHM_Gauss |-> k.FWHM_Gauss, R2 |-> k.R2])
    /\ UNCHANGED <<verbose, pc, pass1, pass2, center_value, accepted, robustness, console>>
    /\ UNCHANGED <<svars, fvars>>

\* a centre is classified against the seven regions
Classify ==
    /\ pc = "input"
    /\ results_df = <<>>
    /\ \E c \in MinCentre..MaxCentre :
          /\ center_value' = c
          /\ accepted' = AcceptingRegions(c)
    /\ pc' = "classified"
    /\ UNCHANGED <<results_df, verbose, pass1, pass2, robustness, console>>
    /\ UNCHANGED <<svars, fvars>>

\* if all_results.empty: return.  No file yielded a row: batch_process
\* returns before the summary report, and the table is not cleaned
NoResults ==
    /\ pc = "input"
    /\ results_df = <<>>
    /\ pc' = "returned"
    /\ UNCHANGED <<results_df, verbose, pass1, pass2, center_value, accepted, robustness,
                   console>>
    /\ UNCHANGED <<svars, fvars>>

\* cleaned_df, outlier_report = detect_and_remove_outliers(results_df, verbose)
\* in generate_summary_report, which batch_process calls on a table with rows
Clean ==
    /\ pc = "input"
    /\ results_df # <<>>
    /\ pass1' = detect_and_remove_outliers(results_df, verbose)
    /\ pc' = "cleaned"
    /\ UNCHANGED <<results_df, verbose, pass2, center_value, accepted, robustness, console>>
    /\ UNCHANGED <<svars, fvars>>

\* the cleaning pass is run again on the cleaned table
CleanAgain ==
    /\ pc = "cleaned"
    /\ pass1.raised = ""
    /\ pass2' = detect_and_remove_outliers(pass1.cleaned_df, verbose)
    /\ pc' = "recleaned"
    /\ UNCHANGED <<results_df, verbose, pass1, center_value, accepted, robustness, console>>
    /\ UNCHANGED <<svars, fvars>>

-----------------------------------------------------------------------------
(* Input files *)

\* a numeric intensity column of n samples, all of them NaN when not v,
\* named grain_location when u and by the grain alone otherwise
Spectrum(n, v, u) ==
    [samples |-> n, nans |-> IF v THEN 0 ELSE n, zeros |-> 0, numeric |-> TRUE,
     underscore |-> u]

\* a file is the sequence of its intensity columns
InputFiles ==
    {<<>>} \cup {<<Spectrum(n, TRUE, TRUE)>> : n \in MinSamples..MaxSamples}
           \cup {<<Spectrum(MinSamples, FALSE, FALSE), Spectrum(MaxSamples, TRUE, TRUE)>>}

InputDirs ==
    {<<>>} \cup {<<f>> : f \in InputFiles}
           \cup {<<<<>>, <<Spectrum(MinSamples, TRUE, TRUE)>>>>}

\* n peaks detected, of which those of fitted_params were fitted
DetectedAndFitted(n, fitted_params) ==
    [len_peaks_indices |-> n, fitted_params |-> fitted_params]

\* what detection and fitting can yield for one spectrum: no peak detected,
\* a peak detected and not fitted, one or two peaks detected and fitted
FitTables ==
    { DetectedAndFitted(0, <<>>),
      DetectedAndFitted(1, <<>>),
      DetectedAndFitted(1, <<Row(210, 10, 90)>>),
      DetectedAndFitted(2, <<Row(1000, 10, 90), Row(1005, 12, 95)>>) }

RECURSIVE FitChoices(_)
FitChoices(files) ==
    IF files = <<>> THEN {<<>>}
    ELSE {<<a>> \o rest : a \in [DOMAIN Head(files) -> FitTables],
                          rest \in FitChoices(Tail(files))}

\* pd.concat(..., ignore_index=True): the rows are labelled 0, 1, ...
Reindex(rows) ==
    [i \in DOMAIN rows |->
        [idx |-> i - 1, Espectro |-> rows[i].Espectro, Pico |-> rows[i].Pico,
         Centro |-> rows[i].Centro,
         FWHM_Gauss |-> rows[i].FWHM_Gauss, R2 |-> rows[i].R2]]

-----------------------------------------------------------------------------
(* print_robustness_analysis *)

\* config["peak_detection"] as load_config builds it
peak_detection_default == default_config("spline").peak_detection

baseline_suffixes(name) ==
    CASE name = "airpls" -> "AirPLS"
      [] name = "polynomial" -> "Poly"
      [] name = "spline" -> "Spline"

normalization_suffixes(name) ==
    CASE name = "min_max" -> "MinMax"
      [] name = "area" -> "Area"
      [] name = "peak" -> "Peak"
      [] name = "vector" -> "Vector"

\* f"{combination_count:02d}"
TwoDigits(n) ==
    <<"01", "02", "03", "04", "05", "06", "07", "08", "09", "10", "11", "12">>[n]

\* d[key] = value on a dict d
SetItem(d, key, value) ==
    [k \in DOMAIN d \cup {key} |-> IF k = key THEN value ELSE d[k]]

\* d[key] when the dict has the key, else the {} that is stored under it
SectionOf(d, key) == IF key \in DOMAIN d THEN d[key] ELSE <<>>

\* test_config = config.copy() with the sections "baseline", "normalization"
\* and "baseline_correction" created when absent, the methods set in them and
\* output_dir set to the combination's directory
RobustnessTestConfig(current_config, baseline_method, norm_method, combo_dir) ==
    [k \in DOMAIN current_config
            \cup {"baseline", "normalization", "baseline_correction", "output_dir"} |->
        CASE k = "baseline" ->
                 SetItem(SectionOf(current_config, k), "method", baseline_method)
          [] k = "baseline_correction" ->
                 SetItem(SectionOf(current_config, k), "method", baseline_method)
          [] k = "normalization" ->
                 SetItem(SectionOf(current_config, k), "method", norm_method)
          [] k = "output_dir" -> combo_dir
          [] OTHER -> current_config[k]]

\* One combination after its files were processed: the RESULT line logged
\* when it has no results, its entry of combination_summary otherwise, and
\* the locals of the iteration.  run is what the loop over the files left.
RobustnessCombination(combination_name, files, run, acc) ==
    IF files = <<>>
    THEN [acc EXCEPT
             !.log = Append(@, [Combination |-> combination_name, result |-> "SKIPPED"]),
             !.combo = [NoCombination EXCEPT !.Combination = combination_name,
                                             !.result = "SKIPPED"]]
    ELSE IF run.all_results = <<>>
    THEN [acc EXCEPT
             !.log = Append(@, [Combination |-> combination_name, result |-> "FAILED"]),
             !.combo = [Combination |-> combination_name, result |-> "FAILED",
                        all_results |-> <<>>, regional_summary |-> <<>>,
                        stages |-> run.stages, calls |-> run.calls,
                        observed |-> run.observed]]
    ELSE [acc EXCEPT
             !.combination_summary = Append(@, [Combinacao |-> combination_name]),
             !.combo = [Combination |-> combination_name, result |-> "OK",
                        all_results |-> Reindex(run.all_results),
                        regional_summary |-> <<>>,
                        stages |-> run.stages, calls |-> run.calls,
                        observed |-> run.observed]]

\* The loop over its own baseline_methods x normalization_methods, the same
\* lists as the sweep's.  acc holds the RESULT lines logged for combinations
\* without results, combination_summary and the locals of the last iteration.
RECURSIVE RobustnessLoop(_, _, _, _, _)
RobustnessLoop(current_config, files, fits, count, acc) ==
    IF count = total_combinations THEN acc
    ELSE LET baseline_method ==
                 baseline_methods[(count \div Len(normalization_methods)) + 1]
             norm_method ==
                 normalization_methods[(count % Len(normalization_methods)) + 1]
             combination_name ==
                 baseline_suffixes(baseline_method) \o "_" \o normalization_suffixes(norm_method)
             combo_dir == "Combo_" \o TwoDigits(count + 1) \o "_" \o combination_name
             test_config ==
                 RobustnessTestConfig(current_config, baseline_method, norm_method, combo_dir)
             run == FilesLoop(files, fits, test_config, 1,
                        [all_results |-> <<>>, processing_success |-> 0,
                         processing_errors |-> 0, stages |-> <<>>, calls |-> <<>>,
                         observed |-> <<>>])
         IN  RobustnessLoop(current_config, files, fits, count + 1,
                 RobustnessCombination(combination_name, files, run, acc))

\* What is left when the function returns.  The handler it added is closed
\* and removed on the return for an empty directory and at the end of either
\* final branch; the two returns that leave it open lie behind a non-empty
\* summary whose R2 column, after fillna(0), is all NaN or whose lookup raises.
RobustnessReturn(files, acc) ==
    IF files = <<>>
    THEN [returned |-> "None", log |-> <<>>, file_handler |-> "closed",
          combo |-> NoCombination]
    ELSE [returned |-> IF acc.combination_summary # <<>> THEN "list" ELSE "None",
          log |-> acc.log, file_handler |-> "closed", combo |-> acc.combo]

\* print_robustness_analysis(report, output_dir, file_suffix) from the point
\* where it takes the logger 'combinatorial_analysis': files are the CSV
\* files of Path(output_dir).parent / "input"
print_robustness_analysis(current_config, files, fits) ==
    RobustnessReturn(files,
        RobustnessLoop(current_config, files, fits, 0,
            [log |-> <<>>, combination_summary |-> <<>>, combo |-> NoCombination]))

\* what print_robustness_analysis does on the report of batch_process, for
\* every content of the input directory and every outcome of detection and
\* fitting on its files
RobustnessRuns ==
    LET inputs == {p \in InputDirs \X UNION {FitChoices(d) : d \in InputDirs} :
                      p[2] \in FitChoices(p[1])}
    IN  {print_robustness_analysis(peak_detection_default, p[1], p[2]) : p \in inputs}

\* batch_process after generate_summary_report returned: the robustness
\* analysis on all_results, print_robustness_analysis on its report (whose
\* current_config is the peak_detection section alone) and the console
\* summary on all_results
Analyze ==
    /\ pc = "cleaned"
    /\ verbose
    /\ pass1.raised = ""
    /\ Len(results_df) > 0
    /\ robustness' = analyze_peak_detection_robustness(results_df)
    /\ \E printed \in RobustnessRuns :
          /\ log' = log \o printed.log
          /\ file_handler' = printed.file_handler
          /\ combo' = printed.combo
    /\ console' = BatchRegionSummary(results_df)
    /\ pc' = "analyzed"
    /\ UNCHANGED <<results_df, verbose, pass1, pass2, center_value, accepted>>
    /\ UNCHANGED <<config, csv_files, spc, combination_count, combination_summary, ret,
                   regional_files, all_regional_df>>
    /\ UNCHANGED fvars

NextTable == AddRow \/ Classify \/ NoResults \/ Clean \/ CleanAgain \/ Analyze

SpecTable == InitTable /\ [][NextTable]_vars

-----------------------------------------------------------------------------
(* The sweep program *)

Init ==
    /\ results_df = <<>>
    /\ verbose = TRUE
    /\ pc = "off"
    /\ pass1 = NotRun
    /\ pass2 = NotRun
    /\ center_value = -1
    /\ accepted = {}
    /\ robustness = NoSummary
    /\ console = NoSummary
    /\ SweepNotCalled
    /\ csv_files \in InputDirs
    /\ FunctionsIdle

\* from the call up to the first combination: the log handler is opened and
\* the input directory is checked
SweepStart ==
    /\ spc = "idle"
    /\ IF csv_files = <<>>
       THEN /\ file_handler' = "closed"
            /\ ret' = [type |-> "None", value |-> <<>>]
            /\ spc' = "returned"
       ELSE /\ file_handler' = "open"
            /\ ret' = ret
            /\ spc' = "loop"
    /\ UNCHANGED <<config, csv_files, combination_count, combination_summary, log, combo,
                   regional_files, all_regional_df>>
    /\ UNCHANGED <<tvars, fvars>>

\* one iteration of the loop over baseline_methods x normalization_methods
SweepCombination ==
    /\ spc = "loop"
    /\ combination_count < total_combinations
    /\ \E fits \in FitChoices(csv_files) :
          LET baseline_method ==
                  baseline_methods[(combination_count \div Len(normalization_methods)) + 1]
              norm_method ==
                  normalization_methods[(combination_count % Len(normalization_methods)) + 1]
              \* config.copy() is shallow: the method fields are the caller's
              shared == [config EXCEPT !.baseline_correction.method = baseline_method,
                                       !.normalization.method = norm_method]
              combination_name == capitalize(baseline_method) \o "_" \o capitalize(norm_method)
              test_config == [shared EXCEPT !.output_dir = "Combination_" \o combination_name]
              run == FilesLoop(csv_files, fits, test_config, 1,
                         [all_results |-> <<>>, processing_success |-> 0,
                          processing_errors |-> 0, stages |-> <<>>, calls |-> <<>>,
                          observed |-> <<>>])
              all_results == Reindex(run.all_results)
              total_peaks == Len(all_results)
              nu3_data == SelectSeq(all_results, LAMBDA r : r.Centro >= 990 /\ r.Centro <= 1020)
              entry == [Combination |-> combination_name,
                        Baseline_Method |-> baseline_method,
                        Normalization_Method |-> norm_method,
                        Total_Peaks |-> total_peaks,
                        Nu3_Count |-> Len(nu3_data)]
              regional_summary == RegionalSummary(all_results)
          IN  /\ config' = shared
              /\ IF csv_files = <<>>
                 THEN /\ log' = Append(log, [Combination |-> combination_name, result |-> "SKIPPED"])
                      /\ combination_summary' = combination_summary
                      /\ regional_files' = regional_files
                      /\ combo' = [NoCombination EXCEPT !.Combination = combination_name,
                                                        !.result = "SKIPPED"]
                 ELSE IF all_results = <<>>
                 THEN /\ log' = Append(log, FailedLine(combination_name))
                      /\ combination_summary' = combination_summary
                      /\ regional_files' = regional_files
                      /\ combo' = [Combination |-> combination_name, result |-> "FAILED",
                                   all_results |-> <<>>, regional_summary |-> <<>>,
                                   stages |-> run.stages, calls |-> run.calls,
                                   observed |-> run.observed]
                 ELSE /\ log' = log
                      /\ combination_summary' = Append(combination_summary, entry)
                      /\ regional_files' =
                             IF regional_summary # <<>>
                             THEN Append(regional_files,
                                      RegionalAnalysisFile(combination_name, regional_summary))
                             ELSE regional_files
                      /\ combo' = [Combination |-> combination_name, result |-> "OK",
                                   all_results |-> all_results,
                                   regional_summary |-> RegionalSummary(all_results),
                                   stages |-> run.stages \o <<"metrics", "regional_metrics">>,
                                   calls |-> run.calls, observed |-> run.observed]
    /\ combination_count' = combination_count + 1
    /\ UNCHANGED <<csv_files, spc, file_handler, ret, all_regional_df>>
    /\ UNCHANGED <<tvars, fvars>>

\* after the loop: the comparative tables and the conclusions are written,
\* the log is closed and combination_summary (or None when it is empty) is
\* returned.  The conclusions are written outside any try block: when a
\* region's rows all carry a NaN coefficient of variation the idxmin/idxmax
\* lookup raises, and the exception leaves the function with the handler open.
SweepFinish ==
    /\ spc = "loop"
    /\ combination_count = total_combinations
    /\ IF combination_summary = <<>>
       THEN /\ all_regional_df' = all_regional_df
            /\ file_handler' = "closed"
            /\ ret' = [type |-> "None", value |-> <<>>]
       ELSE LET table == RegionalComparison(combination_summary, regional_files)
            IN  /\ all_regional_df' = table
                /\ IF ConclusionsRaise(table)
                   THEN /\ file_handler' = file_handler
                        /\ \E exc \in LookupErrors :
                               ret' = [type |-> "raised", value |-> <<exc>>]
                   ELSE /\ file_handler' = "closed"
                        /\ ret' = [type |-> "list", value |-> combination_summary]
    /\ spc' = "returned"
    /\ UNCHANGED <<config, csv_files, combination_count, combination_summary, log, combo,
                   regional_files>>
    /\ UNCHANGED <<tvars, fvars>>

Next == SweepStart \/ SweepCombination \/ SweepFinish

Spec == Init /\ [][Next]_vars

-----------------------------------------------------------------------------
(* fit_gaussian_profiles *)

\* Positions are whole wavenumbers; the fit window, whose margin is 0.2 of
\* the width, is kept in fifths of a wavenumber.
MaxOfSeq(x) == MaxOf(Range(x))
MinOfSeq(x) == MinOf(Range(x))

\* the left end of the window without the clamp to min(x)
left_with_margin_unclamped(x, left_pos, right_pos) ==
    LET width == right_pos - left_pos
    IN  5 * left_pos - width

\* left_with_margin = max(min(x), left_pos - margin), in fifths
left_with_margin(x, left_pos, right_pos) ==
    LET width == right_pos - left_pos
        a == 5 * MinOfSeq(x)
        b == 5 * left_pos - width
    IN  IF a >= b THEN a ELSE b

\* right_with_margin = min(max(x), right_pos + margin), in fifths
right_with_margin(x, left_pos, right_pos) ==
    LET width == right_pos - left_pos
        a == 5 * MaxOfSeq(x)
        b == 5 * right_pos + width
    IN  IF a <= b THEN a ELSE b

\* x_fit = x[fit_mask]
x_fit_of(x, left_pos, right_pos) ==
    SelectSeq(x, LAMBDA v : /\ 5 * v >= left_with_margin(x, left_pos, right_pos)
                            /\ 5 * v <= right_with_margin(x, left_pos, right_pos))

TooFewPoints_strict(x_fit) == Len(x_fit) <= 5

\* if len(x_fit) < 5: continue
TooFewPoints(x_fit) == Len(x_fit) < 5

\* The loop over peaks_indices.  curve_fit[i] is what the optimizer call does
\* for peak i, "converged" or "raise"; a result records the peak it was
\* fitted for, its window and the samples in it.
RECURSIVE FitLoop(_, _, _, _, _, _, _)
FitLoop(x, peaks_indices, fwhm_left_ips, fwhm_right_ips, curve_fit, i, fitted_params) ==
    IF i > Len(peaks_indices) THEN fitted_params
    ELSE LET left_pos == fwhm_left_ips[i]
             right_pos == fwhm_right_ips[i]
             x_fit == x_fit_of(x, left_pos, right_pos)
             fit_result ==
                 [peak |-> i,
                  x_peak |-> x[peaks_indices[i]],
                  n_fit |-> Len(x_fit),
                  fit_range |-> <<left_with_margin(x, left_pos, right_pos),
                                  right_with_margin(x, left_pos, right_pos)>>]
         IN  IF TooFewPoints(x_fit)
             THEN FitLoop(x, peaks_indices, fwhm_left_ips, fwhm_right_ips, curve_fit,
                          i + 1, fitted_params)
             ELSE IF curve_fit[i] = "raise"
             THEN FitLoop(x, peaks_indices, fwhm_left_ips, fwhm_right_ips, curve_fit,
                          i + 1, fitted_params)
             ELSE FitLoop(x, peaks_indices, fwhm_left_ips, fwhm_right_ips, curve_fit,
                          i + 1, Append(fitted_params, fit_result))

fit_gaussian_profiles(x, peaks_indices, fwhm_left_ips, fwhm_right_ips, curve_fit) ==
    FitLoop(x, peaks_indices, fwhm_left_ips, fwhm_right_ips, curve_fit, 1, <<>>)

-----------------------------------------------------------------------------
(* The analysis by vibrational mode of the scientific conclusions *)

\* A float that may be NaN.  FWHM_M'edio is in hundredths of a wavenumber,
\* the coefficients of variation in whole percent, R2 in hundredths, and the
\* composite score in thousandths.  The code computes in binary floats read
\* from decimal text: a whole percent is exact, a mean in hundredths is not.
\* Results that differ in the decimal arithmetic differ by a unit of the
\* scale or more and are ordered alike in floats; results that are equal in
\* the decimal arithmetic may come out equal or a rounding apart, in either
\* direction, and the side they fall on is an input of the operators below.
Num(v) == [nan |-> FALSE, v |-> v]
NaN == [nan |-> TRUE, v |-> 0]

\* Series.idxmax() / idxmin(): the first position holding the largest
\* (smallest) value that is not NaN; 0 stands for "no label" (all NaN)
idxmax(values) ==
    LET defined == {i \in DOMAIN values : ~values[i].nan}
    IN  IF defined = {} THEN 0
        ELSE MinOf({i \in defined : \A j \in defined : values[j].v <= values[i].v})

idxmin(values) ==
    LET defined == {i \in DOMAIN values : ~values[i].nan}
    IN  IF defined = {} THEN 0
        ELSE MinOf({i \in defined : \A j \in defined : values[i].v <= values[j].v})

\* Series.max() - Series.min(), NaN values skipped
SeriesRange(values) ==
    LET defined == {values[i].v : i \in {k \in DOMAIN values : ~values[k].nan}}
    IN  IF defined = {} THEN NaN ELSE Num(MaxOf(defined) - MinOf(defined))

\* Series.idxmax() of the float scores of the rows: the positions it can
\* return.  Rows with the same FWHM_CV, R2 and Centro_CV have the same float
\* score, so of such rows only the first can be returned; rows whose scores
\* are equal in the decimal arithmetic only (0.4 * 0.92 + 0.3 * 0.80 + 0.3
\* gives 0.9080000000000001 and 0.4 * 0.86 + 0.3 * 0.89 + 0.3 * 0.99 gives
\* 0.9079999999999999) are returned as their floats compare.  {0} stands for
\* "no label" (all NaN).
idxmax_float(region_data, values) ==
    LET defined == {i \in DOMAIN values : ~values[i].nan}
        largest == {i \in defined : \A j \in defined : values[j].v <= values[i].v}
        same_terms(i, j) ==
            /\ region_data[i].FWHM_CV_num = region_data[j].FWHM_CV_num
            /\ region_data[i].R2_num = region_data[j].R2_num
            /\ region_data[i].Centro_CV_num = region_data[j].Centro_CV_num
    IN  IF defined = {} THEN {0}
        ELSE {i \in largest : \A j \in largest : same_terms(i, j) => i <= j}

\* fwhm_range < threshold on floats: fwhm_range is the float difference of
\* two means; when their decimal difference is the threshold itself the
\* float difference falls below it (10.01 - 10.0 < 0.01 is True) or not
\* (1.01 - 1.0 < 0.01 is False)
FloatLess(delta, threshold, below) ==
    delta < threshold \/ (delta = threshold /\ below)

\* weights of precision and quality exchanged
Score_Composto_swapped(row) ==
    IF row.FWHM_CV_num.nan \/ row.Centro_CV_num.nan THEN NaN
    ELSE Num(3 * (100 - row.FWHM_CV_num.v) + 4 * row.R2_num
                 + 3 * (100 - row.Centro_CV_num.v))

\* Score_Precision * 0.4 + Score_Quality * 0.3 + Score_Consistency * 0.3
Score_Composto(row) ==
    IF row.FWHM_CV_num.nan \/ row.Centro_CV_num.nan THEN NaN
    ELSE Num(4 * (100 - row.FWHM_CV_num.v) + 3 * row.R2_num
                 + 3 * (100 - row.Centro_CV_num.v))

\* the interpretation of the dispersion; a comparison with NaN is false.
\* cv_range is a difference of whole percents and is exact.
ImpactOf(fwhm_range, cv_range, below) ==
    IF ~cv_range.nan /\ FloatLess(fwhm_range.v, 1, below) /\ cv_range.v < 1
    THEN "MINIMO"
    ELSE IF ~cv_range.nan /\ FloatLess(fwhm_range.v, 10, below) /\ cv_range.v < 5
    THEN "BAIXO"
    ELSE IF ~cv_range.nan /\ FloatLess(fwhm_range.v, 50, below) /\ cv_range.v < 10
    THEN "MODERADO"
    ELSE "ALTO"

\* how the float arithmetic of one region can round: the position idxmax
\* returns for the composite scores, and the side of a threshold on which a
\* spread of mean FWHM equal to it in the decimal arithmetic falls
FloatRoundings(region_data) ==
    { [idxmax |-> k, below |-> b] :
          k \in idxmax_float(region_data,
                     [i \in DOMAIN region_data |-> Score_Composto(region_data[i])]),
          b \in BOOLEAN }

\* One region of the analysis by vibrational mode: region_data holds the rows
\* of the regional comparison for the region, one per combination with data;
\* float_rounding is one of FloatRoundings(region_data).
AnalysisByMode(region_data, float_rounding) ==
    LET scores == [i \in DOMAIN region_data |-> Score_Composto(region_data[i])]
        best_combo_idx == float_rounding.idxmax
        best_precision_idx ==
            idxmin([i \in DOMAIN region_data |-> region_data[i].FWHM_CV_num])
        best_quality_idx ==
            idxmax([i \in DOMAIN region_data |-> Num(region_data[i].R2_num)])
        fwhm_range ==
            SeriesRange([i \in DOMAIN region_data |-> Num(region_data[i].FWHM_num)])
        cv_range ==
            SeriesRange([i \in DOMAIN region_data |-> region_data[i].FWHM_CV_num])
    IN  IF Len(region_data) = 0
        THEN [written |-> FALSE, raised |-> FALSE]
        ELSE IF best_combo_idx = 0 \/ best_precision_idx = 0
        THEN [written |-> FALSE, raised |-> TRUE]
        ELSE [written |-> TRUE, raised |-> FALSE,
              best_combo |-> region_data[best_combo_idx].Combination,
              Score_Composto |-> scores[best_combo_idx].v,
              best_precision |-> region_data[best_precision_idx].Combination,
              best_quality |-> region_data[best_quality_idx].Combination,
              fwhm_range |-> fwhm_range.v,
              cv_range |-> cv_range.v,
              impact |-> ImpactOf(fwhm_range, cv_range, float_rounding.below)]

\* the regional report: for a baseline with more than one row in the region,
\* the spread of FWHM and of FWHM_CV across its normalizations is written
NormalizationDeltas(region_subset, baseline_type) ==
    LET baseline_subset == SelectSeq(region_subset, LAMBDA r : r.Baseline = baseline_type)
    IN  IF Len(baseline_subset) > 1
        THEN [written |-> TRUE,
              fwhm_range |-> SeriesRange([i \in DOMAIN baseline_subset |->
                                 Num(baseline_subset[i].FWHM_num)]),
              cv_range |-> SeriesRange([i \in DOMAIN baseline_subset |->
                               baseline_subset[i].FWHM_CV_num])]
        ELSE [written |-> FALSE, fwhm_range |-> NaN, cv_range |-> NaN]

-----------------------------------------------------------------------------

(* calculate_fwhm *)

\* Positions are carried times PosScale(x) = 4 * (len(x) - 1), and the
\* fractional sample positions left_ips and right_ips of peak_widths in
\* halves of a sample, so that dx = np.mean(np.diff(x)) =
\* (x[-1] - x[0]) / (len(x) - 1) and width / 2 are exact integers.
PosScale(x) == 4 * (Len(x) - 1)

\* x[0] + ips * dx
InterpolatedPos(x, ips) ==
    PosScale(x) * x[1] + 2 * ips * (x[Len(x)] - x[1])

\* the body of the loop without the exchange of inverted bounds
FwhmBounds_no_swap(peak_pos, left_pos, right_pos) ==
    IF peak_pos < left_pos \/ peak_pos > right_pos
    THEN LET width == right_pos - left_pos
             center == peak_pos
         IN  <<center - width \div 2, center + width \div 2>>
    ELSE <<left_pos, right_pos>>

\* if left_pos > right_pos the two are exchanged; if the peak position is
\* then outside them, they are recentred on it with the same width
FwhmBounds(peak_pos, left_pos, right_pos) ==
    LET l == IF left_pos > right_pos THEN right_pos ELSE left_pos
        r == IF left_pos > right_pos THEN left_pos ELSE right_pos
    IN  IF peak_pos < l \/ peak_pos > r
        THEN LET width == r - l
                 center == peak_pos
             IN  <<center - width \div 2, center + width \div 2>>
        ELSE <<l, r>>

\* peaks_indices are 1-based positions in x; left_ips and right_ips are what
\* peak_widths(y, peaks_indices, rel_height=0.5) returned for them
calculate_fwhm(x, peaks_indices, left_ips, right_ips) ==
    LET bounds == [i \in DOMAIN peaks_indices |->
                      FwhmBounds(PosScale(x) * x[peaks_indices[i]],
                                 InterpolatedPos(x, left_ips[i]),
                                 InterpolatedPos(x, right_ips[i]))]
        widths == [i \in DOMAIN peaks_indices |->
                      2 * (right_ips[i] - left_ips[i]) * (x[Len(x)] - x[1])]
    IN  [fwhm_values |-> [i \in DOMAIN widths |->
                             IF widths[i] < 0 THEN -widths[i] ELSE widths[i]],
         left_positions |-> [i \in DOMAIN bounds |-> bounds[i][1]],
         right_positions |-> [i \in DOMAIN bounds |-> bounds[i][2]]]

-----------------------------------------------------------------------------

(* categorize_radiation_damage *)

\* fwhm is a float carried in halves of a wavenumber (fwhm2 = 2 * fwhm), or
\* NaN; the dose -0.1402 + 0.07683 * fwhm is carried times 200000.  Every
\* comparison with NaN is false, so NaN falls through to the last branch.
categorize_radiation_damage_strict(fwhm) ==
    LET dose == IF fwhm.nan THEN NaN ELSE Num(7683 * fwhm.v - 28040)
    IN  IF ~fwhm.nan /\ fwhm.v < 2 * 8 THEN <<"Baixo dano", dose>>
        ELSE IF ~fwhm.nan /\ fwhm.v < 29 THEN <<"Dano moderado", dose>>
        ELSE IF ~fwhm.nan /\ fwhm.v < 2 * 25 THEN <<"Alto dano", dose>>
        ELSE <<"Quase amorfo", dose>>

categorize_radiation_damage(fwhm) ==
    LET dose == IF fwhm.nan THEN NaN ELSE Num(7683 * fwhm.v - 28040)
    IN  IF ~fwhm.nan /\ fwhm.v <= 2 * 8 THEN <<"Baixo dano", dose>>
        ELSE IF ~fwhm.nan /\ fwhm.v <= 29 THEN <<"Dano moderado", dose>>
        ELSE IF ~fwhm.nan /\ fwhm.v <= 2 * 25 THEN <<"Alto dano", dose>>
        ELSE <<"Quase amorfo", dose>>

-----------------------------------------------------------------------------

(* Calls of process_file and fit_gaussian_profiles on drawn inputs *)

GridLen == 7         \* samples of the spectrum handed to the fitter
GridStart == 200     \* its first wavenumber
MaxHalfWidth == 3    \* the half-maximum bounds lie up to this far from the peak

\* intensity columns of MaxSamples values: NaN and zero counts under a
\* grain_location name; under a name without '_' a column without NaN or
\* zero and a column of NaN alone; and a column holding a non-numeric cell
SpectrumKinds ==
    { k \in { [samples |-> MaxSamples, nans |-> a, zeros |-> z, numeric |-> TRUE,
               underscore |-> u] :
                 a \in 0..MaxSamples, z \in 0..MaxSamples, u \in BOOLEAN } :
          /\ k.nans + k.zeros <= MaxSamples
          /\ ~k.underscore => (k.zeros = 0 /\ k.nans \in {0, MaxSamples}) }

NonNumericSpectrum ==
    [samples |-> MaxSamples, nans |-> 0, zeros |-> 0, numeric |-> FALSE,
     underscore |-> TRUE]

CallFiles ==
    LET kinds == SpectrumKinds \cup {NonNumericSpectrum}
    IN  {<<a>> : a \in kinds} \cup {<<a, b>> : a \in kinds, b \in kinds}

\* a configuration file that lacks one section, returned by load_config as
\* it was read
WithoutSection(cfg, section) == [k \in DOMAIN cfg \ {section} |-> cfg[k]]

\* the configurations process_file is called with: the complete one of
\* load_config with each baseline method; the test_config that
\* print_robustness_analysis builds for each baseline method from the
\* report's current_config, which is the peak_detection section alone; and
\* configuration files that lack a section read after the baseline correction
CallConfigs ==
    { default_config(m) : m \in Range(baseline_methods) } \cup
    { RobustnessTestConfig(peak_detection_default, m, "min_max", "Combo") :
          m \in Range(baseline_methods) } \cup
    { WithoutSection(default_config("polynomial"), section) :
          section \in {"smoothing", "fitting"} }

ProcessFileCalls ==
    { [op |-> "process_file", file |-> f, fits |-> t, config |-> c] :
          f \in CallFiles, t \in UNION {[DOMAIN g -> FitTables] : g \in CallFiles},
          c \in CallConfigs }

Grid == [k \in 1..GridLen |-> GridStart + k - 1]

\* one detected peak: its index, its half-maximum bounds and what the
\* optimizer will do for it
PeakInputs ==
    { [idx |-> p, left |-> Grid[p] - a, right |-> Grid[p] + b, curve_fit |-> o] :
          p \in 1..GridLen, a \in 0..MaxHalfWidth, b \in 0..MaxHalfWidth,
          o \in {"converged", "raise"} }

\* find_peaks yields the indices in increasing order
PeakLists ==
    {<<p>> : p \in PeakInputs} \cup
    {l \in {<<p, q>> : p \in PeakInputs, q \in PeakInputs} : l[1].idx < l[2].idx}

FitCalls ==
    { [op |-> "fit_gaussian_profiles", x |-> Grid,
       peaks_indices |-> [i \in DOMAIN l |-> l[i].idx],
       fwhm_left_ips |-> [i \in DOMAIN l |-> l[i].left],
       fwhm_right_ips |-> [i \in DOMAIN l |-> l[i].right],
       curve_fit |-> [i \in DOMAIN l |-> l[i].curve_fit]] : l \in PeakLists }

\* rows of the regional comparison for one region: up to three combinations
\* with data, each with its mean FWHM, its coefficients of variation (NaN
\* when the combination has a single peak in the region) and its mean R2
RegionRowValues ==
    { [FWHM_num |-> f, FWHM_CV_num |-> c[1], Centro_CV_num |-> c[2], R2_num |-> r] :
          f \in {1000, 1005, 1030},
          c \in {<<NaN, NaN>>, <<Num(2), Num(0)>>, <<Num(8), Num(1)>>, <<Num(14), Num(0)>>},
          r \in {80, 95} } \cup
    \* rows whose spread of mean FWHM from 10.00 is a threshold (0.01, 0.1,
    \* 0.5), the first two with the same composite score 0.908 from
    \* different terms
    { [FWHM_num |-> 1001, FWHM_CV_num |-> Num(8), Centro_CV_num |-> Num(0), R2_num |-> 80],
      [FWHM_num |-> 1010, FWHM_CV_num |-> Num(14), Centro_CV_num |-> Num(1), R2_num |-> 89],
      [FWHM_num |-> 1050, FWHM_CV_num |-> Num(8), Centro_CV_num |-> Num(1), R2_num |-> 80] }

RegionRow(baseline, normalization, v) ==
    [Combination |-> capitalize(baseline) \o "_" \o capitalize(normalization),
     Baseline |-> baseline, Normalization |-> normalization,
     FWHM_num |-> v.FWHM_num, FWHM_CV_num |-> v.FWHM_CV_num,
     Centro_CV_num |-> v.Centro_CV_num, R2_num |-> v.R2_num]

RegionTables ==
    {<<RegionRow("polynomial", "min_max", a)>> : a \in RegionRowValues} \cup
    {<<RegionRow("polynomial", "min_max", a), RegionRow("polynomial", "area", b)>> :
         a \in RegionRowValues, b \in RegionRowValues} \cup
    {<<RegionRow("polynomial", "min_max", a), RegionRow("polynomial", "area", b),
       RegionRow("spline", "min_max", c)>> :
         a \in RegionRowValues, b \in RegionRowValues, c \in RegionRowValues}

AnalysisCalls == {[op |-> "analysis", region_data |-> t] : t \in RegionTables}

\* largest FWHM handed to categorize_radiation_damage, in halves of a cm^-1
MaxFwhmHalves == 54

DamageCalls ==
    {[op |-> "categorize_radiation_damage", fwhm |-> f] :
         f \in {NaN} \cup {Num(v) : v \in 0..MaxFwhmHalves}}

\* method names that correct_baseline does not recognise
UnknownMethods == {"none", "als", "Spline"}

\* correct_baseline(y, x, config) on a spectrum of some length, under a
\* configuration with any method name and any spline_smoothing (hundredths)
BaselineCalls ==
    {[op |-> "correct_baseline", samples |-> n,
      config |-> [baseline_correction |->
                      [method |-> m, airpls_lambda |-> 10000,
                       polynomial_degree |-> 4, spline_smoothing |-> s]]] :
         n \in MinSamples..MaxSamples,
         m \in Range(baseline_methods) \cup UnknownMethods,
         s \in {5, 10, 20}}

\* wavenumber axes handed to calculate_fwhm: evenly spaced, unevenly spaced,
\* and descending
FwhmGrids ==
    {<<200, 201, 202, 203, 204>>, <<200, 201, 202, 206, 212>>,
     <<204, 203, 202, 201, 200>>}

\* one peak with the half-maximum crossings of peak_widths, in halves of a
\* sample counted from 0: they lie within the axis, on either side of the peak
FwhmPeaks(x) ==
    {q \in {[idx |-> p, left |-> l, right |-> r] :
                p \in 1..Len(x), l \in 0..(2 * (Len(x) - 1)), r \in 0..(2 * (Len(x) - 1))} :
        /\ q.left <= 2 * (q.idx - 1)
        /\ 2 * (q.idx - 1) <= q.right
        /\ 2 * (q.idx - 1) - q.left <= 2 * MaxHalfWidth
        /\ q.right - 2 * (q.idx - 1) <= 2 * MaxHalfWidth}

FwhmCalls ==
    {[op |-> "calculate_fwhm", x |-> c[1],
      peaks_indices |-> <<c[2].idx>>, left_ips |-> <<c[2].left>>,
      right_ips |-> <<c[2].right>>] :
         c \in {d \in FwhmGrids \X UNION {FwhmPeaks(g) : g \in FwhmGrids} :
                    d[2] \in FwhmPeaks(d[1])}}

InitFunctions ==
    /\ results_df = <<>>
    /\ verbose = TRUE
    /\ pc = "off"
    /\ pass1 = NotRun
    /\ pass2 = NotRun
    /\ center_value = -1
    /\ accepted = {}
    /\ robustness = NoSummary
    /\ console = NoSummary
    /\ SweepIdle
    /\ fcall \in {c \in ProcessFileCalls : DOMAIN c.fits = DOMAIN c.file} \cup FitCalls
                  \cup AnalysisCalls \cup DamageCalls \cup BaselineCalls
                  \cup FwhmCalls
    /\ outcome = NoCall
    /\ fpc = "call"

\* results = process_file(file_path, config)
ProcessFile ==
    /\ fpc = "call"
    /\ fcall.op = "process_file"
    /\ outcome' = [op |-> "process_file",
                   value |-> process_file(fcall.file, fcall.fits, fcall.config)]
    /\ fpc' = "done"
    /\ UNCHANGED <<fcall, tvars, svars>>

\* fitted_params = fit_gaussian_profiles(x, y_filtered, peaks_indices, ...)
FitGaussianProfiles ==
    /\ fpc = "call"
    /\ fcall.op = "fit_gaussian_profiles"
    /\ outcome' = [op |-> "fit_gaussian_profiles",
                   value |-> fit_gaussian_profiles(fcall.x, fcall.peaks_indices,
                                 fcall.fwhm_left_ips, fcall.fwhm_right_ips,
                                 fcall.curve_fit)]
    /\ fpc' = "done"
    /\ UNCHANGED <<fcall, tvars, svars>>

\* one region of the regional report and of the analysis by vibrational mode
AnalyzeRegion ==
    /\ fpc = "call"
    /\ fcall.op = "analysis"
    /\ \E float_rounding \in FloatRoundings(fcall.region_data) :
          outcome' = [op |-> "analysis",
                      value |-> AnalysisByMode(fcall.region_data, float_rounding),
                      deltas |-> [b \in Range(baseline_methods) |->
                                     NormalizationDeltas(fcall.region_data, b)]]
    /\ fpc' = "done"
    /\ UNCHANGED <<fcall, tvars, svars>>

\* damage_category, estimated_dose = categorize_radiation_damage(fwhm)
CategorizeRadiationDamage ==
    /\ fpc = "call"
    /\ fcall.op = "categorize_radiation_damage"
    /\ outcome' = [op |-> "categorize_radiation_damage",
                   value |-> categorize_radiation_damage(fcall.fwhm)]
    /\ fpc' = "done"
    /\ UNCHANGED <<fcall, tvars, svars>>

\* correct_baseline(y, x, config)
CorrectBaseline ==
    /\ fpc = "call"
    /\ fcall.op = "correct_baseline"
    /\ outcome' = [op |-> "correct_baseline",
                   value |-> correct_baseline(ndarray(fcall.samples),
                                              ndarray(fcall.samples), fcall.config)]
    /\ fpc' = "done"
    /\ UNCHANGED <<fcall, tvars, svars>>

\* fwhm_values, fwhm_left_ips, fwhm_right_ips = calculate_fwhm(x, y_filtered, peaks_indices)
CalculateFwhm ==
    /\ fpc = "call"
    /\ fcall.op = "calculate_fwhm"
    /\ outcome' = [op |-> "calculate_fwhm",
                   value |-> calculate_fwhm(fcall.x, fcall.peaks_indices,
                                            fcall.left_ips, fcall.right_ips)]
    /\ fpc' = "done"
    /\ UNCHANGED <<fcall, tvars, svars>>

NextFunctions ==
    \/ ProcessFile
    \/ FitGaussianProfiles
    \/ AnalyzeRegion
    \/ CategorizeRadiationDamage
    \/ CorrectBaseline
    \/ CalculateFwhm

SpecFunctions == InitFunctions /\ [][NextFunctions]_vars

-----------------------------------------------------------------------------
(* Properties of the sweep *)

\* C1: every value correct_baseline returns, for airpls, polynomial and
\* spline alike, is a two-element (corrected spectrum, baseline) result whose
\* elements have the input's length, so that the unpacking in process_file
\* succeeds.
C1_BaselineReturnsPair ==
    \A i \in DOMAIN combo.calls :
        LET call == combo.calls[i]
        IN  /\ call.value.type = "tuple"
            /\ Len(call.value.items) = 2
            /\ \A k \in DOMAIN call.value.items : call.value.items[k].len = call.samples
            /\ UnpackTwo(call.value)

\* the input holds at least one file with at least one valid spectrum
ValidInput ==
    \E f \in DOMAIN csv_files : \E c \in DOMAIN csv_files[f] :
        csv_files[f][c].numeric /\ ~InvalidData(csv_files[f][c])

\* C2: a sweep over valid non-empty input returns a result that accounts for
\* each of the 12 combinations: an entry with its metrics, or an entry
\* marking it failed; no combination is missing from the result.
C2_SweepAccountsForAll ==
    (spc = "returned" /\ ValidInput) =>
        /\ ret.type = "list"
        /\ \A b \in Range(baseline_methods) : \A n \in Range(normalization_methods) :
              \E i \in DOMAIN ret.value :
                  /\ ret.value[i].Baseline_Method = b
                  /\ ret.value[i].Normalization_Method = n

\* every combination missing from combination_summary has a RESULT line in
\* the scientific log
FailuresAreLogged ==
    spc = "loop" =>
        Len(combination_summary) + Len(log) = combination_count

\* C3: in every combination whose metrics are aggregated, the outlier
\* cleaning stage runs on the fitted-peak table after fitting and
\* classification and before the global and per-region metrics.
C3_CleanBeforeMetrics ==
    combo.result = "OK" =>
        \E j \in DOMAIN combo.stages :
            /\ combo.stages[j] = "clean"
            /\ \A i \in DOMAIN combo.stages :
                  combo.stages[i] \in {"fit", "classify"} => i < j
            /\ \A k \in DOMAIN combo.stages :
                  combo.stages[k] \in {"metrics", "regional_metrics"} => j < k

\* C8: in the per-region metrics of a combination every fitted peak is
\* counted in at most one region, a peak at exactly 210 or 220 included.
C8_PeakInOneRegionMetric ==
    combo.result = "OK" =>
        \A r \in Range(combo.all_results) :
            Cardinality({i \in DOMAIN combo.regional_summary :
                            r.idx \in combo.regional_summary[i].region_data}) <= 1

-----------------------------------------------------------------------------
(* Properties of the cleaning pass and of the region classifier *)

\* rows of df whose centre the classifier puts in region i
ClassifiedRows(df, i) ==
    LET reg == get_zircon_spectral_regions[i]
    IN  SelectSeq(df, LAMBDA r :
            is_peak_in_region(r.Centro, reg.min_wave, reg.max_wave, reg.is_inclusive))

\* rows of df whose centre no region accepts
UnclassifiedRows(df) == SelectSeq(df, LAMBDA r : AcceptingRegions(r.Centro) = {})

\* C4 as stated: cleaning the cleaned table again removes zero rows.
C4_SecondPassRemovesNothing ==
    (pc = "recleaned" /\ pass2.raised = "") => pass2.cleaned_df = pass1.cleaned_df

\* C4, amended: in the cleaned table no row meets a fixed threshold (R2 < 0.3
\* or FWHM > 60 inside a region, R2 < 0.5 or FWHM > 50 outside), so a second
\* pass removes no unclassified row and no row of a region that is left with
\* fewer than 3 rows; every row it removes lies in a region with at least 3
\* cleaned rows and is flagged by the recomputed IQR or z-score.  The second
\* pass fails to return only on an empty cleaned table with verbose output.
C4_SecondPassRemovesOnlyStatistical ==
    pc = "recleaned" =>
        /\ \A r \in Range(UnclassifiedRows(pass1.cleaned_df)) :
              r.R2 >= 50 /\ r.FWHM_Gauss <= 50
        /\ \A i \in DOMAIN get_zircon_spectral_regions :
              \A r \in Range(ClassifiedRows(pass1.cleaned_df, i)) :
                  r.R2 >= 30 /\ r.FWHM_Gauss <= 60
        /\ pass2.raised # "" =>
              (pass2.raised = "ZeroDivisionError" /\ pass1.cleaned_df = <<>> /\ verbose)
        /\ pass2.raised = "" =>
              /\ Labels(pass2.cleaned_df) \subseteq Labels(pass1.cleaned_df)
              /\ \A r \in Range(pass1.cleaned_df) \ Range(pass2.cleaned_df) :
                    \E i \in DOMAIN get_zircon_spectral_regions :
                        /\ r \in Range(ClassifiedRows(pass1.cleaned_df, i))
                        /\ Len(ClassifiedRows(pass1.cleaned_df, i)) >= 3

\* a second pass that removed a row
C4_Witness ==
    /\ pc = "recleaned"
    /\ pass2.raised = ""
    /\ Len(pass2.cleaned_df) < Len(pass1.cleaned_df)

\* C5: the rows of the input table absent from the cleaned table are exactly
\* the union of the outlier_indices recorded in the outlier report.
C5_ReportRecordsEveryRemoval ==
    (pc = "cleaned" /\ pass1.raised = "") =>
        Labels(results_df) \ Labels(pass1.cleaned_df)
            = UNION {pass1.outlier_report[n].outlier_indices : n \in DOMAIN pass1.outlier_report}

\* C6: no centre is accepted by more than one of the seven regions.
C6_AtMostOneRegion ==
    pc = "classified" => Cardinality(accepted) <= 1

\* the boundary shared by External mode 1 and 2, accepted by one region
C6_Witness ==
    pc = "classified" /\ center_value = 210 /\ Cardinality(accepted) = 1

\* C7 as stated: 210, 220, 230 and 365 are each accepted by exactly one region.
C7_BoundariesInExactlyOne ==
    (pc = "classified" /\ center_value \in {210, 220, 230, 365}) =>
        Cardinality(accepted) = 1

\* C7, amended: 210, 220 and 365 are accepted by exactly one region
\* (External mode 2, 3 and 4); 230 is accepted by none.
C7_BoundariesAmended ==
    pc = "classified" =>
        /\ center_value = 210 => accepted = {"External mode 2"}
        /\ center_value = 220 => accepted = {"External mode 3"}
        /\ center_value = 365 => accepted = {"External mode 4"}
        /\ center_value = 230 => accepted = {}

\* the upper end of External mode 3, accepted by no region
C7_Witness ==
    pc = "classified" /\ center_value = 230 /\ accepted = {}

\* the counts a region summary must show according to the classifier
AgreesWithClassifier(summary, df) ==
    /\ \A i \in DOMAIN get_zircon_spectral_regions :
          summary.count[i] = Len(ClassifiedRows(df, i))
    /\ summary.outside = Len(UnclassifiedRows(df))
    /\ SumSeq(summary.count) + summary.outside = Len(df)

\* C9: in the region statistics of analyze_peak_detection_robustness and of
\* batch_process, each region count is the number of peaks the classifier
\* assigns to the region, the outside count is the number of peaks in no
\* region, and together they add up to the total.
C9_CountsArePartition ==
    pc = "analyzed" =>
        /\ AgreesWithClassifier(robustness, results_df)
        /\ AgreesWithClassifier(console, results_df)

\* the four criteria of a region, evaluated on the rows of that region
MeetsRegionCriterion(r, region_rows) ==
    LET f  == Column(region_rows, "FWHM_Gauss")
        n  == Len(f)
        S  == SumSeq(f)
        SS == SumSeq([i \in DOMAIN f |-> f[i] * f[i]])
        q1 == Quantile4(f, 1)
        q3 == Quantile4(f, 3)
        d  == n * r.FWHM_Gauss - S
    IN  \/ r.R2 < 30
        \/ /\ n >= 4
           /\ \/ 8 * r.FWHM_Gauss < 2 * q1 - 3 * (q3 - q1)
              \/ 8 * r.FWHM_Gauss > 2 * q3 + 3 * (q3 - q1)
        \/ /\ n >= 3
           /\ n * SS - S * S > 0
           /\ d * d * (n - 1) > 9 * n * (n * SS - S * S)
        \/ r.FWHM_Gauss > 60

\* C10: a row whose centre lies in a region is removed if and only if it
\* meets one of the four criteria (R2 < 0.3, IQR fence with 4+ rows, z-score
\* above 3 with 3+ rows and nonzero std, FWHM > 60) evaluated on the rows of
\* the input table in that region.
C10_RemovedIffCriterion ==
    pc = "cleaned" =>
        \A i \in DOMAIN get_zircon_spectral_regions :
            LET rows == ClassifiedRows(results_df, i)
            IN  \A k \in DOMAIN rows :
                    (pass1.raised = "" /\ rows[k].idx \notin Labels(pass1.cleaned_df))
                        <=> MeetsRegionCriterion(rows[k], rows)

\* whenever the call returns, the rows removed from a region are exactly
\* those meeting one of the four criteria
CriteriaHoldOnReturn ==
    (pc = "cleaned" /\ pass1.raised = "") =>
        \A i \in DOMAIN get_zircon_spectral_regions :
            LET rows == ClassifiedRows(results_df, i)
            IN  \A k \in DOMAIN rows :
                    rows[k].idx \notin Labels(pass1.cleaned_df)
                        <=> MeetsRegionCriterion(rows[k], rows)

\* on a table with rows the call fails to return exactly when the first
\* region holding rows has all of them flagged
RaisesOnlyWhen ==
    pc = "cleaned" =>
        /\ results_df # <<>>
        /\ pass1.raised \in {"", "UnboundLocalError"}
        /\ pass1.raised = "UnboundLocalError" <=>
              \E i \in DOMAIN get_zircon_spectral_regions :
                  LET rows == ClassifiedRows(results_df, i)
                  IN  /\ rows # <<>>
                      /\ \A j \in 1..(i - 1) : ClassifiedRows(results_df, j) = <<>>
                      /\ \A k \in DOMAIN rows : MeetsRegionCriterion(rows[k], rows)

\* C11: a row whose centre lies in none of the seven regions is removed by
\* detect_and_remove_outliers if and only if its R2 < 0.5 or its FWHM > 50;
\* the interquartile and z-score criteria play no part for such rows.
C11_UnclassifiedRemovedIffThreshold ==
    pc = "cleaned" =>
        \A r \in Range(UnclassifiedRows(results_df)) :
            (pass1.raised = "" /\ r.idx \notin Labels(pass1.cleaned_df))
                <=> (r.R2 < 50 \/ r.FWHM_Gauss > 50)

\* whenever the call returns, the unclassified rows removed are exactly those
\* with R2 < 0.5 or FWHM > 50
UnclassifiedThresholdOnReturn ==
    (pc = "cleaned" /\ pass1.raised = "") =>
        \A r \in Range(UnclassifiedRows(results_df)) :
            r.idx \notin Labels(pass1.cleaned_df)
                <=> (r.R2 < 50 \/ r.FWHM_Gauss > 50)

\* rows of region i flagged by both the fit-quality and the
\* physical-implausibility criterion
DoublyFlagged(df, i) ==
    SelectSeq(ClassifiedRows(df, i), LAMBDA r : r.R2 < 30 /\ r.FWHM_Gauss > 60)

\* C12: a row flagged by more than one criterion is removed exactly once: it
\* is absent from the cleaned table, it is one of the region's recorded
\* outlier indices, and the region's outliers_removed is the number of
\* distinct rows recorded, so the row adds exactly 1 to it.
C12_DoublyFlaggedRemovedOnce ==
    pc = "cleaned" =>
        \A i \in DOMAIN get_zircon_spectral_regions :
            \A r \in Range(DoublyFlagged(results_df, i)) :
                LET name == get_zircon_spectral_regions[i].name
                IN  /\ pass1.raised = ""
                    /\ r.idx \notin Labels(pass1.cleaned_df)
                    /\ name \in DOMAIN pass1.outlier_report
                    /\ r.idx \in pass1.outlier_report[name].outlier_indices
                    /\ pass1.outlier_report[name].outliers_removed =
                           Cardinality(pass1.outlier_report[name].outlier_indices)
                    /\ pass1.outlier_report[name].remaining_count =
                           pass1.outlier_report[name].initial_count
                               - pass1.outlier_report[name].outliers_removed

\* whenever the call returns, a doubly flagged row is removed exactly once
DoublyFlaggedOnceOnReturn ==
    (pc = "cleaned" /\ pass1.raised = "") =>
        \A i \in DOMAIN get_zircon_spectral_regions :
            \A r \in Range(DoublyFlagged(results_df, i)) :
                LET name == get_zircon_spectral_regions[i].name
                IN  /\ r.idx \notin Labels(pass1.cleaned_df)
                    /\ name \in DOMAIN pass1.outlier_report
                    /\ r.idx \in pass1.outlier_report[name].outlier_indices
                    /\ pass1.outlier_report[name].outliers_removed =
                           Cardinality(pass1.outlier_report[name].outlier_indices)

-----------------------------------------------------------------------------
(* Further properties of the sweep *)

\* C13: the configuration passed to the sweep is never mutated: after
\* test_all_baseline_normalization_combinations returns, the caller's
\* configuration has the baseline method, normalization method and output
\* directory it had before the call.
C13_ConfigNotMutated ==
    spc = "returned" =>
        /\ config.baseline_correction.method = "spline"
        /\ config.normalization.method = "min_max"
        /\ config.output_dir = "results"

\* the top-level output_dir key is set on the copy only
OutputDirKept ==
    config.output_dir = "results"

\* C14: on every exit path of a sweep run after the log file handler has been
\* opened (normal completion, an early return, or an error) the handler has
\* been flushed and closed before control leaves the function.
C14_HandlerClosedOnEveryExit ==
    spc = "returned" => file_handler = "closed"

\* the handler is closed on every exit by return
HandlerClosedOnReturn ==
    (spc = "returned" /\ ret.type # "raised") => file_handler = "closed"

\* C15: no exception raised at any stage of a sweep run (per-file processing,
\* per-combination metrics, regional comparison, report and file writing)
\* propagates out of test_all_baseline_normalization_combinations.
C15_NoExceptionEscapes ==
    ret.type # "raised"

\* inside the loop over the combinations every failure is contained: the
\* sweep leaves the loop only after the twelfth combination
LoopContainsFailures ==
    (spc = "returned" /\ csv_files # <<>>) => combination_count = total_combinations

\* the name of the k-th combination in sweep order
CombinationName(k) ==
    capitalize(baseline_methods[((k - 1) \div Len(normalization_methods)) + 1])
        \o "_" \o
    capitalize(normalization_methods[((k - 1) % Len(normalization_methods)) + 1])

\* C17: a combination whose processing yields zero results is skipped (no
\* entry in combination_summary) and recorded as failed (a RESULT ... FAILED
\* line in the log), and every later combination of the sweep order is
\* still processed: each of the combinations started so far is either in
\* combination_summary or recorded as failed, and a sweep over a non-empty
\* directory leaves the loop only after all 12.
C17_ZeroResultCombinationSkipped ==
    /\ \A k \in 1..combination_count :
          LET name == CombinationName(k)
              summarized == \E i \in DOMAIN combination_summary :
                                combination_summary[i].Combination = name
              failed == [Combination |-> name, result |-> "FAILED"] \in Range(log)
          IN  summarized # failed
    /\ (combo.result \notin {"none", "OK"}) =>
          /\ combo.all_results = <<>>
          /\ combo.Combination = CombinationName(combination_count)
          /\ log # <<>>
          /\ log[Len(log)] = [Combination |-> combo.Combination, result |-> "FAILED"]
          /\ \A i \in DOMAIN combination_summary :
                combination_summary[i].Combination # combo.Combination
    /\ combo.result = "OK" => combo.all_results # <<>>
    /\ (spc = "returned" /\ csv_files # <<>>) => combination_count = total_combinations

\* a combination without results (Polynomial_Min_max) was recorded as failed
\* and a later one (Spline_Vector) was still processed
C17_Witness ==
    /\ spc = "returned"
    /\ [Combination |-> "Polynomial_Min_max", result |-> "FAILED"] \in Range(log)
    /\ \E i \in DOMAIN combination_summary :
          combination_summary[i].Combination = "Spline_Vector"

\* the sweep returned with every one of the 12 combinations in its summary
AllCombinationsSucceeded ==
    spc = "returned" /\ Len(combination_summary) = total_combinations

\* C20: after a sweep in which all 12 combinations succeed, the
\* cross-combination regional comparative table has at least 12 x 7 = 84
\* rows, one for every (combination, region) pair.
C20_RowPerCombinationAndRegion ==
    AllCombinationsSucceeded =>
        /\ \A i \in DOMAIN combination_summary :
              \A k \in DOMAIN regions_analysis :
                  \E j \in DOMAIN all_regional_df :
                      /\ all_regional_df[j].Combination = combination_summary[i].Combination
                      /\ all_regional_df[j].Regiao = regions_analysis[k]
        /\ Len(all_regional_df) >= 7 * total_combinations

\* no sweep has all 12 combinations succeed: the four airpls combinations
\* never yield a result (process_file cannot unpack the single array
\* airpls_baseline returns), so a summary holds 8 combinations at most
NeverAllCombinationsSucceeded ==
    spc = "returned" => Len(combination_summary) <= 2 * Len(normalization_methods)

\* the table has a row for every region of every combination that succeeded
RowPerSuccessfulCombinationAndRegion ==
    (spc = "returned" /\ combination_summary # <<>>) =>
        /\ \A i \in DOMAIN combination_summary :
              \A k \in DOMAIN regions_analysis :
                  \E j \in DOMAIN all_regional_df :
                      /\ all_regional_df[j].Combination = combination_summary[i].Combination
                      /\ all_regional_df[j].Regiao = regions_analysis[k]
        /\ Len(all_regional_df) >= 7 * Len(combination_summary)

\* the table holds the rows of the Regional_Analysis files: one per
\* combination and region in which the combination has at least one peak
RowPerRegionWithData ==
    (spc = "returned" /\ combination_summary # <<>>) =>
        /\ Len(all_regional_df) =
               SumSeq([i \in DOMAIN regional_files |-> Len(regional_files[i].rows)])
        /\ \A j \in DOMAIN all_regional_df : all_regional_df[j].N_Picos > 0
        /\ Len(all_regional_df) <= 7 * Len(combination_summary)

-----------------------------------------------------------------------------
(* Properties of process_file and fit_gaussian_profiles *)

\* more than half of the values are NaN, or more than half are zero
MoreThanHalfBad(column) ==
    2 * column.nans > column.samples \/ 2 * column.zeros > column.samples

\* the records a spectrum contributes when it is processed to the end
RecordsOf(fits, j) ==
    [k \in DOMAIN fits[j].fitted_params |->
        [Espectro |-> j, Pico |-> k, Centro |-> fits[j].fitted_params[k].Centro,
         FWHM_Gauss |-> fits[j].fitted_params[k].FWHM_Gauss,
         R2 |-> fits[j].fitted_params[k].R2]]

\* C16: a failure while processing one spectrum of a file is contained to
\* that spectrum: the peak records of the other spectra of the same file are
\* still returned by process_file.
C16_SpectrumFailureContained ==
    (fpc = "done" /\ outcome.op = "process_file"
        /\ fcall.config.baseline_correction.method # "airpls") =>
        \A i \in DOMAIN fcall.file : \A j \in DOMAIN fcall.file :
            (/\ ~fcall.file[i].numeric
             /\ fcall.file[j].numeric
             /\ ~MoreThanHalfBad(fcall.file[j])
             /\ fcall.fits[j].fitted_params # <<>>) =>
                \A r \in Range(RecordsOf(fcall.fits, j)) :
                    r \in Range(outcome.value.results)

RECURSIVE ExpectedRecords(_, _, _)
ExpectedRecords(file, fits, j) ==
    IF j > Len(file) THEN <<>>
    ELSE (IF MoreThanHalfBad(file[j]) THEN <<>> ELSE RecordsOf(fits, j))
             \o ExpectedRecords(file, fits, j + 1)

\* C19: in process_file a spectrum in which more than 50% of the values are
\* NaN, or more than 50% are zero, is skipped entirely: it contributes no
\* peak record and is not handed to the baseline correction; the remaining
\* spectra of the file are still processed: the first spectrum after it that
\* is not skipped is handed to the baseline correction, and a file whose
\* processing returns a table has the records of all its other spectra.
C19_InvalidSpectrumSkipped ==
    (fpc = "done" /\ outcome.op = "process_file") =>
        /\ \A i \in DOMAIN fcall.file :
              (fcall.file[i].numeric /\ MoreThanHalfBad(fcall.file[i])) =>
                  /\ \A r \in Range(outcome.value.results) : r.Espectro # i
                  /\ \A c \in Range(outcome.value.calls) : c.column # i
        /\ \A j \in DOMAIN fcall.file :
              (/\ fcall.file[j].numeric /\ ~MoreThanHalfBad(fcall.file[j])
               /\ \A i \in 1..(j - 1) :
                     fcall.file[i].numeric /\ MoreThanHalfBad(fcall.file[i])) =>
                  \E c \in Range(outcome.value.calls) : c.column = j
        /\ outcome.value.returned = "DataFrame" =>
              outcome.value.results = ExpectedRecords(fcall.file, fcall.fits, 1)

\* the same for the calls in which the location of every column is known
\* without a lookup that raises (the name holds a '_', or the configuration
\* has data_format.default_location)
InvalidSpectrumSkippedWhenLocationKnown ==
    (/\ fpc = "done" /\ outcome.op = "process_file"
     /\ \A i \in DOMAIN fcall.file : ~LocationLookupRaises(fcall.file[i], fcall.config)) =>
        /\ \A i \in DOMAIN fcall.file :
              (fcall.file[i].numeric /\ MoreThanHalfBad(fcall.file[i])) =>
                  /\ \A r \in Range(outcome.value.results) : r.Espectro # i
                  /\ \A c \in Range(outcome.value.calls) : c.column # i
        /\ \A j \in DOMAIN fcall.file :
              (/\ fcall.file[j].numeric /\ ~MoreThanHalfBad(fcall.file[j])
               /\ \A i \in 1..(j - 1) :
                     fcall.file[i].numeric /\ MoreThanHalfBad(fcall.file[i])) =>
                  \E c \in Range(outcome.value.calls) : c.column = j
        /\ outcome.value.returned = "DataFrame" =>
              outcome.value.results = ExpectedRecords(fcall.file, fcall.fits, 1)

\* a spectrum of which 3 of 4 values are zero is skipped and the spectrum
\* after it contributes its records
InvalidSpectrumSkippedReached ==
    /\ fpc = "done" /\ outcome.op = "process_file"
    /\ Len(fcall.file) = 2
    /\ fcall.file[1].numeric /\ fcall.file[1].nans = 0
    /\ 2 * fcall.file[1].zeros > fcall.file[1].samples
    /\ fcall.fits[1].fitted_params # <<>>
    /\ outcome.value.returned = "DataFrame"
    /\ outcome.value.results # <<>>
    /\ \A r \in Range(outcome.value.results) : r.Espectro = 2

\* a column of NaN alone named without '_' comes first in a file processed
\* under the test_config of print_robustness_analysis: the file returns None
\* and the column after it was not handed to the baseline correction
InvalidSpectrumAbortsFile ==
    /\ fpc = "done" /\ outcome.op = "process_file"
    /\ Len(fcall.file) = 2
    /\ "data_format" \notin DOMAIN fcall.config
    /\ ~fcall.file[1].underscore /\ fcall.file[1].nans = fcall.file[1].samples
    /\ fcall.file[2].numeric /\ ~MoreThanHalfBad(fcall.file[2])
    /\ outcome.value.returned = "None"
    /\ outcome.value.calls = <<>>

\* the samples of x inside [max(x_min, left - 0.2 width), min(x_max, right + 0.2 width)]
WindowSamples(x, left, right) ==
    Cardinality({k \in DOMAIN x :
        /\ x[k] >= MinOfSeq(x) /\ 5 * x[k] >= 5 * left - (right - left)
        /\ x[k] <= MaxOfSeq(x) /\ 5 * x[k] <= 5 * right + (right - left)})

\* peak i is to be fitted: its window holds 5 samples or more and the
\* optimizer call does not raise
Fitted(c, i) ==
    /\ WindowSamples(c.x, c.fwhm_left_ips[i], c.fwhm_right_ips[i]) >= 5
    /\ c.curve_fit[i] = "converged"

\* C18: fit_gaussian_profiles returns exactly one result for each detected
\* peak whose fit window contains at least 5 samples and whose optimizer call
\* does not raise, in detection order, and no result for any other peak; a
\* skipped peak does not prevent the later peaks from being fitted.
C18_OneResultPerFittedPeak ==
    (fpc = "done" /\ outcome.op = "fit_gaussian_profiles") =>
        /\ \A i \in DOMAIN fcall.peaks_indices :
              Cardinality({k \in DOMAIN outcome.value : outcome.value[k].peak = i})
                  = IF Fitted(fcall, i) THEN 1 ELSE 0
        /\ \A k \in DOMAIN outcome.value :
              /\ outcome.value[k].peak \in DOMAIN fcall.peaks_indices
              /\ outcome.value[k].x_peak = fcall.x[fcall.peaks_indices[outcome.value[k].peak]]
        /\ \A k \in DOMAIN outcome.value : \A l \in DOMAIN outcome.value :
              k < l => outcome.value[k].peak < outcome.value[l].peak

\* the first peak is skipped (its optimizer call raises on a window of 5
\* samples) and the second one is fitted
C18_Witness ==
    /\ fpc = "done" /\ outcome.op = "fit_gaussian_profiles"
    /\ Len(fcall.peaks_indices) = 2
    /\ WindowSamples(fcall.x, fcall.fwhm_left_ips[1], fcall.fwhm_right_ips[1]) = 5
    /\ fcall.curve_fit[1] = "raise"
    /\ Len(outcome.value) = 1
    /\ outcome.value[1].peak = 2
    /\ outcome.value[1].n_fit = 5

-----------------------------------------------------------------------------
(* Properties of the analysis by vibrational mode *)

\* the composite score of a row in thousandths, for a row whose coefficients
\* of variation are numbers
CompositeScore(row) ==
    4 * (100 - row.FWHM_CV_num.v) + 3 * row.R2_num + 3 * (100 - row.Centro_CV_num.v)

HasScore(row) == ~row.FWHM_CV_num.nan /\ ~row.Centro_CV_num.nan

\* C21: for each region, the combination reported as best overall is one
\* whose composite score 0.4 (1 - FWHM_CV/100) + 0.3 R2 + 0.3 (1 - Center_CV/100)
\* is maximal among the combinations that have data for the region (a
\* combination whose coefficients of variation are NaN has no score).
C21_BestOverallHasMaximalScore ==
    (fpc = "done" /\ outcome.op = "analysis" /\ outcome.value.written) =>
        \E i \in DOMAIN fcall.region_data :
            /\ fcall.region_data[i].Combination = outcome.value.best_combo
            /\ HasScore(fcall.region_data[i])
            /\ outcome.value.Score_Composto = CompositeScore(fcall.region_data[i])
            /\ \A j \in DOMAIN fcall.region_data :
                  HasScore(fcall.region_data[j]) =>
                      CompositeScore(fcall.region_data[j])
                          <= CompositeScore(fcall.region_data[i])

\* three combinations with data: the first has no score, the third has the
\* largest score and is reported
C21_Witness ==
    /\ fpc = "done" /\ outcome.op = "analysis" /\ outcome.value.written
    /\ Len(fcall.region_data) = 3
    /\ ~HasScore(fcall.region_data[1])
    /\ HasScore(fcall.region_data[2]) /\ HasScore(fcall.region_data[3])
    /\ CompositeScore(fcall.region_data[2]) < CompositeScore(fcall.region_data[3])
    /\ outcome.value.best_combo = fcall.region_data[3].Combination

\* the impact class of the claim's thresholds, from a spread of mean FWHM
\* (hundredths) and of FWHM_CV (percent)
ImpactClass(delta_fwhm, delta_cv) ==
    IF delta_fwhm < 1 /\ delta_cv < 1 THEN "MINIMO"
    ELSE IF delta_fwhm < 10 /\ delta_cv < 5 THEN "BAIXO"
    ELSE IF delta_fwhm < 50 /\ delta_cv < 10 THEN "MODERADO"
    ELSE "ALTO"

\* C24: for each region and each baseline method, the normalization-impact
\* class is derived from that baseline method's own spread (max - min) of
\* mean FWHM and of FWHM_CV across its normalization variants, with the
\* thresholds 0.01/1, 0.1/5, 0.5/10.
C24_ImpactFromBaselineSpread ==
    (fpc = "done" /\ outcome.op = "analysis" /\ outcome.value.written) =>
        \A b \in Range(baseline_methods) :
            (outcome.deltas[b].written /\ ~outcome.deltas[b].cv_range.nan) =>
                outcome.value.impact =
                    ImpactClass(outcome.deltas[b].fwhm_range.v, outcome.deltas[b].cv_range.v)

\* the class written for a region follows the claim's thresholds, applied to
\* the spread over all the combinations of the region
ImpactFromRegionSpread ==
    (fpc = "done" /\ outcome.op = "analysis" /\ outcome.value.written) =>
        LET rows == fcall.region_data
            fw == {rows[i].FWHM_num : i \in DOMAIN rows}
            cv == {rows[i].FWHM_CV_num.v : i \in {k \in DOMAIN rows : ~rows[k].FWHM_CV_num.nan}}
            delta_fwhm == MaxOf(fw) - MinOf(fw)
            delta_cv == MaxOf(cv) - MinOf(cv)
        IN  \/ outcome.value.impact = ImpactClass(delta_fwhm, delta_cv)
            \* a spread of mean FWHM that is a threshold in the decimal
            \* arithmetic and falls below it in floats
            \/ /\ delta_fwhm \in {1, 10, 50}
               /\ outcome.value.impact = ImpactClass(delta_fwhm - 1, delta_cv)

-----------------------------------------------------------------------------
(* Properties of categorize_radiation_damage and correct_baseline *)

\* the category the thresholds 8, 14.5 and 25 cm^-1 assign, each boundary
\* belonging to the lower category; fwhm2 is twice the FWHM
DamageCategory(fwhm2) ==
    IF fwhm2 <= 16 THEN "Baixo dano"
    ELSE IF fwhm2 <= 29 THEN "Dano moderado"
    ELSE IF fwhm2 <= 50 THEN "Alto dano"
    ELSE "Quase amorfo"

\* C22: categorize_radiation_damage gives low damage for FWHM <= 8, moderate
\* damage for 8 < FWHM <= 14.5, high damage for 14.5 < FWHM <= 25 and
\* near-amorphous for FWHM > 25, so that 8, 14.5 and 25 fall in the low,
\* moderate and high categories.
C22_DamageBoundariesInclusiveBelow ==
    (fpc = "done" /\ outcome.op = "categorize_radiation_damage" /\ ~fcall.fwhm.nan) =>
        /\ outcome.value[1] = DamageCategory(fcall.fwhm.v)
        /\ fcall.fwhm.v = 16 => outcome.value[1] = "Baixo dano"
        /\ fcall.fwhm.v = 29 => outcome.value[1] = "Dano moderado"
        /\ fcall.fwhm.v = 50 => outcome.value[1] = "Alto dano"
        /\ fcall.fwhm.v > 50 => outcome.value[1] = "Quase amorfo"

\* a FWHM of exactly 14.5 cm^-1 has been categorized as moderate damage
C22_Witness ==
    /\ fpc = "done" /\ outcome.op = "categorize_radiation_damage"
    /\ fcall.fwhm = Num(29)
    /\ outcome.value[1] = "Dano moderado"

\* C23: under a method name that is not airpls, polynomial or spline,
\* correct_baseline raises no error and returns what spline_baseline returns
\* for the same spectrum: a pair of arrays of the spectrum's length.
C23_UnknownMethodFallsBackToSpline ==
    (/\ fpc = "done" /\ outcome.op = "correct_baseline"
     /\ fcall.config.baseline_correction.method \notin Range(baseline_methods)) =>
        LET y == ndarray(fcall.samples)
        IN  /\ ~IsRaised(outcome.value)
            /\ outcome.value = spline_baseline(y, y, smoothing_factor_default)
            /\ outcome.value.by = "spline_baseline"
            /\ UnpackTwo(outcome.value)
            /\ \A k \in DOMAIN outcome.value.items :
                  outcome.value.items[k].len = fcall.samples

\* under an unrecognised method name correct_baseline does what
\* spline_baseline(y, x) does: it returns the same pair or raises the same
\* error, and it returns a pair for every spectrum of more than 3 samples
FallbackDoesWhatSplineDoes ==
    (/\ fpc = "done" /\ outcome.op = "correct_baseline"
     /\ fcall.config.baseline_correction.method \notin Range(baseline_methods)) =>
        LET y == ndarray(fcall.samples)
        IN  /\ outcome.value = spline_baseline(y, y, smoothing_factor_default)
            /\ outcome.value.by = "spline_baseline"
            /\ fcall.samples > spline_degree => UnpackTwo(outcome.value)

\* the fallback's result is the one the spline method gives under the same
\* configuration (it is not when spline_smoothing is not the default)
FallbackUsesConfiguredSmoothing ==
    (/\ fpc = "done" /\ outcome.op = "correct_baseline"
     /\ fcall.config.baseline_correction.method \notin Range(baseline_methods)) =>
        LET y == ndarray(fcall.samples)
        IN  outcome.value =
                spline_baseline(y, y, fcall.config.baseline_correction.spline_smoothing)

-----------------------------------------------------------------------------
(* Further properties of the cleaning pass *)

\* C25: in every entry of the returned outlier report with at least one
\* removed row, a region all of whose rows were removed included,
\* stats_before describes the region's rows before removal (its count is
\* initial_count) and stats_after the rows that remain (its count is
\* remaining_count).
C25_StatsDescribeTheRegion ==
    (pc = "cleaned" /\ pass1.raised = "") =>
        \A i \in DOMAIN get_zircon_spectral_regions :
            LET name == get_zircon_spectral_regions[i].name
                rows == ClassifiedRows(results_df, i)
            IN  (name \in DOMAIN pass1.outlier_report
                    /\ pass1.outlier_report[name].outliers_removed > 0) =>
                    LET entry == pass1.outlier_report[name]
                    IN  /\ entry.stats_before.tag = "dict"
                        /\ entry.stats_before.count = entry.initial_count
                        /\ entry.stats_before = DescribeStats(rows, Len(rows))
                        /\ entry.stats_after.tag = "dict"
                        /\ entry.stats_after.count = entry.remaining_count

\* in an entry of a region that keeps at least one row, the statistics are
\* those of the region before and after the removal
StatsDescribeRegionWithRowsLeft ==
    (pc = "cleaned" /\ pass1.raised = "") =>
        \A i \in DOMAIN get_zircon_spectral_regions :
            LET name == get_zircon_spectral_regions[i].name
                rows == ClassifiedRows(results_df, i)
            IN  (name \in DOMAIN pass1.outlier_report
                    /\ pass1.outlier_report[name].outliers_removed > 0
                    /\ pass1.outlier_report[name].remaining_count > 0) =>
                    LET entry == pass1.outlier_report[name]
                        left == Drop(rows, entry.outlier_indices)
                    IN  /\ entry.stats_before = DescribeStats(rows, Len(rows))
                        /\ entry.stats_before.count = entry.initial_count
                        /\ entry.stats_after = DescribeStats(left, Len(left))
                        /\ entry.stats_after.count = entry.remaining_count

\* the outlier sets of every region and of the unclassified rows, each
\* computed from the original table, and their union
OutlierSetsOf(df) ==
    [i \in 1..(Len(get_zircon_spectral_regions) + 1) |->
        IF i <= Len(get_zircon_spectral_regions)
        THEN RegionOutliersIndices(RegionData(df, get_zircon_spectral_regions[i]))
        ELSE UnclassifiedOutliersIndices(UnclassifiedData(df))]

SinglePassCleaned(df) ==
    Drop(df, UNION {OutlierSetsOf(df)[i] : i \in DOMAIN OutlierSetsOf(df)})

\* C26: for every table with unique labels the cleaned table returned after
\* the successive per-region drops and the unclassified drop is the original
\* table without the union of all the outlier sets computed from the original
\* table, and no row is dropped twice (the sets are pairwise disjoint).
C26_SuccessiveDropsEqualSinglePass ==
    pc = "cleaned" =>
        /\ pass1.raised = ""
        /\ pass1.cleaned_df = SinglePassCleaned(results_df)
        /\ \A i, j \in DOMAIN OutlierSetsOf(results_df) :
              i # j => OutlierSetsOf(results_df)[i] \cap OutlierSetsOf(results_df)[j] = {}

\* whenever the call returns, the cleaned table is the single-pass result, no
\* label is dropped twice, and the count of removed rows is the size of the union
SinglePassOnReturn ==
    (pc = "cleaned" /\ pass1.raised = "") =>
        /\ pass1.cleaned_df = SinglePassCleaned(results_df)
        /\ \A i, j \in DOMAIN OutlierSetsOf(results_df) :
              i # j => OutlierSetsOf(results_df)[i] \cap OutlierSetsOf(results_df)[j] = {}
        /\ pass1.total_outliers_removed = Len(results_df) - Len(pass1.cleaned_df)

\* no drop is asked to remove a label that is not in the table any more
\* (DataFrame.drop would raise KeyError): every outlier set holds labels of
\* the original table only, and none shared with an earlier set
DropNeverRaises ==
    \A df \in {results_df} \cup (IF pass1.raised = "" THEN {pass1.cleaned_df} ELSE {}) :
        \A i \in DOMAIN OutlierSetsOf(df) :
            /\ OutlierSetsOf(df)[i] \subseteq Labels(df)
            /\ \A j \in 1..(i - 1) : OutlierSetsOf(df)[i] \cap OutlierSetsOf(df)[j] = {}

\* the call leaves the table it was given as it was
OriginalTableUnmodified ==
    [][Clean => results_df' = results_df]_vars

-----------------------------------------------------------------------------
(* Properties of calculate_fwhm *)

\* the half-maximum crossings as positions on the axis, before any correction
InterpolatedBounds(x, left_ips, right_ips) ==
    LET a == PosScale(x) * x[1] + 2 * left_ips * (x[Len(x)] - x[1])
        b == PosScale(x) * x[1] + 2 * right_ips * (x[Len(x)] - x[1])
    IN  IF a <= b THEN <<a, b>> ELSE <<b, a>>

\* C27: for every peak calculate_fwhm returns, left <= peak position <= right;
\* when the interpolated bounds did not contain the peak position, the
\* returned bounds are symmetric about it and as far apart as the
\* interpolated ones.
C27_BoundsContainPeak ==
    (fpc = "done" /\ outcome.op = "calculate_fwhm") =>
        \A i \in DOMAIN fcall.peaks_indices :
            LET peak_pos == PosScale(fcall.x) * fcall.x[fcall.peaks_indices[i]]
                ib == InterpolatedBounds(fcall.x, fcall.left_ips[i], fcall.right_ips[i])
                left == outcome.value.left_positions[i]
                right == outcome.value.right_positions[i]
            IN  /\ left <= peak_pos
                /\ peak_pos <= right
                /\ (peak_pos < ib[1] \/ peak_pos > ib[2]) =>
                      /\ peak_pos - left = right - peak_pos
                      /\ right - left = ib[2] - ib[1]
                /\ (ib[1] <= peak_pos /\ peak_pos <= ib[2]) =>
                      (left = ib[1] /\ right = ib[2])

\* on the unevenly spaced axis the peak at 202 had the interpolated bounds
\* 203 and 206, and the bounds returned are 200.5 and 203.5
C27_Witness ==
    /\ fpc = "done" /\ outcome.op = "calculate_fwhm"
    /\ fcall.x = <<200, 201, 202, 206, 212>>
    /\ fcall.peaks_indices = <<3>>
    /\ fcall.left_ips = <<2>>
    /\ fcall.right_ips = <<4>>
    /\ outcome.value.left_positions = <<16 * 200 + 8>>
    /\ outcome.value.right_positions = <<16 * 203 + 8>>

-----------------------------------------------------------------------------
(* Properties of the fit window *)

\* [max(x_min, left - 0.2 width), min(x_max, right + 0.2 width)], in fifths
ClampedWindow(x, left, right) ==
    LET width == right - left
        lo == 5 * left - width
        hi == 5 * right + width
    IN  << IF lo < 5 * MinOfSeq(x) THEN 5 * MinOfSeq(x) ELSE lo,
           IF hi > 5 * MaxOfSeq(x) THEN 5 * MaxOfSeq(x) ELSE hi >>

\* C28: for every peak fit_gaussian_profiles attempts to fit (its window holds
\* at least 5 samples), the fit window is
\* [max(x_min, left - 0.2 width), min(x_max, right + 0.2 width)]; it lies
\* within the range of the spectrum and contains every point of [left, right]
\* that lies within that range.
C28_FitWindowClamped ==
    (fpc = "done" /\ outcome.op = "fit_gaussian_profiles") =>
        /\ \A i \in DOMAIN fcall.peaks_indices :
              LET left == fcall.fwhm_left_ips[i]
                  right == fcall.fwhm_right_ips[i]
                  w == <<left_with_margin(fcall.x, left, right),
                         right_with_margin(fcall.x, left, right)>>
              IN  ~TooFewPoints(x_fit_of(fcall.x, left, right)) =>
                      /\ w = ClampedWindow(fcall.x, left, right)
                      /\ 5 * MinOfSeq(fcall.x) <= w[1]
                      /\ w[1] <= w[2]
                      /\ w[2] <= 5 * MaxOfSeq(fcall.x)
                      /\ \A v \in left..right :
                            (MinOfSeq(fcall.x) <= v /\ v <= MaxOfSeq(fcall.x)) =>
                                (w[1] <= 5 * v /\ 5 * v <= w[2])
        /\ \A k \in DOMAIN outcome.value :
              LET i == outcome.value[k].peak
                  w == outcome.value[k].fit_range
              IN  /\ w = ClampedWindow(fcall.x, fcall.fwhm_left_ips[i],
                                       fcall.fwhm_right_ips[i])
                  /\ outcome.value[k].n_fit =
                         Cardinality({j \in DOMAIN fcall.x :
                             w[1] <= 5 * fcall.x[j] /\ 5 * fcall.x[j] <= w[2]})

\* the peak at 201 with half-maximum bounds 198 and 204 has been fitted on
\* the window [200, 205.2]: the left end is clamped to the first wavenumber
C28_Witness ==
    /\ fpc = "done" /\ outcome.op = "fit_gaussian_profiles"
    /\ fcall.peaks_indices = <<2>>
    /\ fcall.fwhm_left_ips = <<GridStart - 2>>
    /\ fcall.fwhm_right_ips = <<GridStart + 4>>
    /\ Len(outcome.value) = 1
    /\ outcome.value[1].fit_range = <<5 * GridStart, 5 * (GridStart + 5) + 1>>
    /\ outcome.value[1].n_fit = 6

-----------------------------------------------------------------------------
(* Properties of the order of the sweep *)

\* the 12 pairs in baseline-major order
SweepOrder ==
    << <<"airpls", "min_max">>, <<"airpls", "area">>,
       <<"airpls", "peak">>, <<"airpls", "vector">>,
       <<"polynomial", "min_max">>, <<"polynomial", "area">>,
       <<"polynomial", "peak">>, <<"polynomial", "vector">>,
       <<"spline", "min_max">>, <<"spline", "area">>,
       <<"spline", "peak">>, <<"spline", "vector">> >>

\* the combination visited last is the one of this position in the order,
\* and every process_file call made for it was handed its two methods
VisitedInOrder ==
    (spc \in {"loop", "returned"} /\ combination_count >= 1) =>
        /\ combination_count <= Len(SweepOrder)
        /\ combo.Combination =
               capitalize(SweepOrder[combination_count][1]) \o "_" \o
               capitalize(SweepOrder[combination_count][2])
        /\ Len(combo.observed) = Len(csv_files)
        /\ \A c \in DOMAIN combo.observed :
              /\ combo.observed[c].baseline = SweepOrder[combination_count][1]
              /\ combo.observed[c].normalization = SweepOrder[combination_count][2]
        /\ \A c \in DOMAIN combo.calls :
              combo.calls[c].method = SweepOrder[combination_count][1]

\* C29: the sweep visits the 12 pairs once each in baseline-major order
\* (airpls, polynomial, spline; within each min_max, area, peak, vector), and
\* every process_file call of a combination is handed a configuration with
\* that combination's baseline and normalization methods.
C29_SweepVisitsTwelvePairsInOrder ==
    /\ VisitedInOrder
    /\ spc = "returned" => combination_count = Len(SweepOrder)

\* C29, for an input directory that holds at least one CSV file: the sweep
\* visits the 12 pairs once each in baseline-major order, and every
\* process_file call of a combination is handed that combination's methods.
C29_VisitsTwelvePairsGivenInput ==
    /\ VisitedInOrder
    /\ (spc = "returned" /\ csv_files # <<>>) => combination_count = Len(SweepOrder)

\* the sixth combination, Polynomial_Area, has just been run on one file
C29_Witness ==
    /\ spc = "loop"
    /\ combination_count = 6
    /\ combo.Combination = "Polynomial_Area"
    /\ combo.observed = <<[baseline |-> "polynomial", normalization |-> "area"]>>
    /\ combo.calls # <<>>


\* each iteration advances the count of combinations by exactly one
CountStepsByOne ==
    [][combination_count' = combination_count
          \/ combination_count' = combination_count + 1]_vars

-----------------------------------------------------------------------------
(* Properties of the peak index *)

\* the peak records of spectrum j, in the order of the returned table
RecordsOfSpectrum(results, j) ==
    SelectSeq(results, LAMBDA r : r.Espectro = j)

\* C30: within each spectrum processed by process_file the peak records carry
\* the indices 1, 2, ..., k without gap or repeat, in the order in which the
\* peaks were detected, k being the number of peaks fitted for the spectrum;
\* a peak the fitter skipped takes no index, the position of a fitted peak in
\* the fitter's result being the number of fitted peaks up to it.
C30_PeakIndicesSequential ==
    /\ (fpc = "done" /\ outcome.op = "process_file"
            /\ outcome.value.returned = "DataFrame") =>
           \A j \in DOMAIN fcall.file :
               LET records == RecordsOfSpectrum(outcome.value.results, j)
               IN  /\ Len(records) \in {0, Len(fcall.fits[j].fitted_params)}
                   /\ \A k \in DOMAIN records :
                         /\ records[k].Pico = k
                         /\ records[k].Centro = fcall.fits[j].fitted_params[k].Centro
                         /\ records[k].FWHM_Gauss = fcall.fits[j].fitted_params[k].FWHM_Gauss
                         /\ records[k].R2 = fcall.fits[j].fitted_params[k].R2
    /\ (fpc = "done" /\ outcome.op = "fit_gaussian_profiles") =>
           \A k \in DOMAIN outcome.value :
               k = Cardinality({i \in 1..outcome.value[k].peak : Fitted(fcall, i)})

\* the second spectrum of a file had two fitted peaks, recorded as peaks 1 and 2
C30_Witness ==
    /\ fpc = "done" /\ outcome.op = "process_file"
    /\ outcome.value.returned = "DataFrame"
    /\ Len(fcall.file) = 2
    /\ Len(fcall.fits[2].fitted_params) = 2
    /\ LET records == RecordsOfSpectrum(outcome.value.results, 2)
       IN  /\ Len(records) = 2
           /\ records[1].Pico = 1 /\ records[1].Centro = 1000
           /\ records[2].Pico = 2 /\ records[2].Centro = 1005

\* a case of the above: of two detected peaks the first was skipped by the
\* fitter, and the second is the first result
SkippedPeakCase ==
    /\ fpc = "done" /\ outcome.op = "fit_gaussian_profiles"
    /\ Len(fcall.peaks_indices) = 2
    /\ Len(outcome.value) = 1
    /\ outcome.value[1].peak = 2

=============================================================================
